---- MODULE Spec2Model ----
(***************************************************************************)
(* Author-portfolio site: the catalog filter engine (BooksPageManager),    *)
(* the fuzzy search, the works/search merge (enhanceBookData) and the      *)
(* cached catalog fetch (fetchDetailedJKRowlingBooks).                     *)
(*                                                                         *)
(* JavaScript strings are modelled as sequences of one-character strings,  *)
(* so that toLowerCase, trim, includes and indexing are computed as the    *)
(* engine computes them.  The empty sequence is the empty string; a        *)
(* missing (undefined/null) string field is modelled by the empty string   *)
(* wherever the code only tests the field for truthiness before using it.  *)
(***************************************************************************)
EXTENDS Integers, Sequences, FiniteSets, TLC

(***************************************************************************)
(* Bounds of the model.                                                    *)
(***************************************************************************)
\* longest raw book list handed to displayBooks
MaxBooks == 2
\* most applyFilters timeouts pending at once
MaxTimers == 2

(***************************************************************************)
(* JavaScript string primitives.                                           *)
(***************************************************************************)
UpperCaseLetters == <<"A", "B", "C", "D", "E", "F", "G", "H", "I", "J", "K", "L", "M", "N", "O", "P", "Q", "R", "S", "T", "U", "V", "W", "X", "Y", "Z">>
LowerCaseLetters == <<"a", "b", "c", "d", "e", "f", "g", "h", "i", "j", "k", "l", "m", "n", "o", "p", "q", "r", "s", "t", "u", "v", "w", "x", "y", "z">>
DecimalDigits == <<"0", "1", "2", "3", "4", "5", "6", "7", "8", "9">>
WhiteSpace == {" ", "\t", "\n"}

RangeOf(s) == {s[i] : i \in 1..Len(s)}

IndexIn(c, s) == CHOOSE i \in 1..Len(s) : s[i] = c

\* String.prototype.toLowerCase, on one character and on a string
ToLowerChar(c) ==
  IF c \in RangeOf(UpperCaseLetters)
    THEN LowerCaseLetters[IndexIn(c, UpperCaseLetters)]
    ELSE c

ToLowerCase(s) == [i \in 1..Len(s) |-> ToLowerChar(s[i])]

ToUpperChar(c) ==
  IF c \in RangeOf(LowerCaseLetters)
    THEN UpperCaseLetters[IndexIn(c, LowerCaseLetters)]
    ELSE c

\* String.prototype.trim: drops leading and trailing white space
RECURSIVE TrimStart(_)
TrimStart(s) ==
  IF s # <<>> /\ Head(s) \in WhiteSpace THEN TrimStart(Tail(s)) ELSE s

RECURSIVE TrimEnd(_)
TrimEnd(s) ==
  IF s # <<>> /\ s[Len(s)] \in WhiteSpace
    THEN TrimEnd(SubSeq(s, 1, Len(s) - 1))
    ELSE s

Trim(s) == TrimEnd(TrimStart(s))

\* String.prototype.includes (the empty string is included in every string)
Includes(s, t) ==
  \E i \in 0..(Len(s) - Len(t)) : SubSeq(s, i + 1, i + Len(t)) = t

\* Number.prototype.toString for a non-negative integer
RECURSIVE NumberToString(_)
NumberToString(n) ==
  IF n < Len(DecimalDigits)
    THEN <<DecimalDigits[n + 1]>>
    ELSE NumberToString(n \div Len(DecimalDigits))
           \o <<DecimalDigits[(n % Len(DecimalDigits)) + 1]>>

\* value of a string of decimal digits
RECURSIVE DigitsValue(_)
DigitsValue(s) ==
  IF s = <<>>
    THEN 0
    ELSE DigitsValue(SubSeq(s, 1, Len(s) - 1)) * Len(DecimalDigits)
           + (IndexIn(s[Len(s)], DecimalDigits) - 1)

(***************************************************************************)
(* JavaScript values held in the fields of the upstream records: a number, *)
(* a string, an array of strings, an object with a `value` member (the     *)
(* work detail's description) or undefined.  One record shape for all of   *)
(* them keeps every comparison well defined.                               *)
(***************************************************************************)
Undefined == [kind |-> "undefined", num |-> 0, str |-> <<>>, items |-> <<>>]
Num(n) == [kind |-> "number", num |-> n, str |-> <<>>, items |-> <<>>]
Str(s) == [kind |-> "string", num |-> 0, str |-> s, items |-> <<>>]
Arr(xs) == [kind |-> "array", num |-> 0, str |-> <<>>, items |-> xs]
Obj(s) == [kind |-> "object", num |-> 0, str |-> s, items |-> <<>>]

\* truthiness: 0, "" and undefined are falsy; arrays and objects are truthy
Truthy(v) ==
  \/ v.kind = "number" /\ v.num # 0
  \/ v.kind = "string" /\ v.str # <<>>
  \/ v.kind \in {"array", "object"}

\* a || b
Or(a, b) == IF Truthy(a) THEN a ELSE b

\* ToNumber: a string converts to a number when, trimmed, it is all decimal
\* digits (the empty string converts to 0); any other string used here
\* (a date such as "June 26, 1997") converts to NaN, as does undefined
ToNumber(v) ==
  CASE v.kind = "number" -> [nan |-> FALSE, val |-> v.num]
    [] v.kind = "string" ->
         IF RangeOf(Trim(v.str)) \subseteq RangeOf(DecimalDigits)
           THEN [nan |-> FALSE, val |-> DigitsValue(Trim(v.str))]
           ELSE [nan |-> TRUE, val |-> 0]
    [] OTHER -> [nan |-> TRUE, val |-> 0]

\* value.toString() of a number or a string
ValueToString(v) ==
  IF v.kind = "number" THEN NumberToString(v.num) ELSE v.str

\* String.prototype.localeCompare in the root collation, for strings of
\* letters, digits and spaces: the strings are compared first by their
\* primary weights (space < digits < letters, case ignored), and strings
\* equal at that level by case at the first differing position, lower case
\* first.  The result is -1, 0 or 1.
CollationOrder == <<" ", "0", "1", "2", "3", "4", "5", "6", "7", "8", "9", "a", "b", "c", "d", "e", "f", "g", "h", "i", "j", "k", "l", "m", "n", "o", "p", "q", "r", "s", "t", "u", "v", "w", "x", "y", "z">>

PrimaryWeight(c) ==
  IF ToLowerChar(c) \in RangeOf(CollationOrder)
    THEN IndexIn(ToLowerChar(c), CollationOrder)
    ELSE 0

RECURSIVE ComparePrimary(_, _)
ComparePrimary(a, b) ==
  CASE a = <<>> /\ b = <<>> -> 0
    [] a = <<>> /\ b # <<>> -> -1
    [] a # <<>> /\ b = <<>> -> 1
    [] OTHER ->
         IF PrimaryWeight(Head(a)) < PrimaryWeight(Head(b)) THEN -1
         ELSE IF PrimaryWeight(Head(a)) > PrimaryWeight(Head(b)) THEN 1
         ELSE ComparePrimary(Tail(a), Tail(b))

RECURSIVE CompareCase(_, _)
CompareCase(a, b) ==
  IF a = <<>> \/ b = <<>> THEN 0
  ELSE IF Head(a) = Head(b) THEN CompareCase(Tail(a), Tail(b))
  ELSE IF Head(a) \in RangeOf(LowerCaseLetters) THEN -1 ELSE 1

localeCompare(a, b) ==
  IF ComparePrimary(a, b) # 0 THEN ComparePrimary(a, b) ELSE CompareCase(a, b)

(***************************************************************************)
(* Records.  A work (author endpoint), a search hit (search endpoint), a   *)
(* work detail and a catalog book all carry a subset of these fields; a    *)
(* field a record lacks is undefined.  A title is a string or undefined.   *)
(***************************************************************************)
BlankRecord ==
  [title |-> Undefined, key |-> Undefined, covers |-> Undefined,
   cover_i |-> Undefined, first_publish_year |-> Undefined,
   first_publish_date |-> Undefined, language |-> Undefined,
   publisher |-> Undefined, isbn |-> Undefined, subject |-> Undefined,
   subjects |-> Undefined, edition_count |-> Undefined,
   author_key |-> Undefined, author_name |-> Undefined,
   description |-> Undefined, subtitle |-> Undefined,
   dewey_decimal_class |-> Undefined, lc_classifications |-> Undefined]

\* the normalized title the catalog de-duplicates by
NormalizedTitle(book) == Trim(ToLowerCase(book.title.str))

(***************************************************************************)
(* BooksPageManager.isExcludedTitle                                        *)
(***************************************************************************)
excludedTerms ==
  << <<"l", "a", "r", "g", "e", " ", "p", "r", "i", "n", "t">>, <<"a", "u", "d", "i", "o", " ", "b", "o", "o", "k">>, <<"a", "u", "d", "i", "o", "b", "o", "o", "k">>, <<"[", "m", "i", "c", "r", "o", "f", "o", "r", "m", "]">>, <<"b", "r", "a", "i", "l", "l", "e">>,
     <<"b", "o", "x", " ", "s", "e", "t">>, <<"b", "o", "x", "s", "e", "t">>, <<"c", "o", "l", "l", "e", "c", "t", "i", "o", "n">>, <<"c", "o", "m", "p", "l", "e", "t", "e", " ", "s", "e", "r", "i", "e", "s">>, <<"c", "o", "m", "p", "l", "e", "t", "e", " ", "s", "e", "t">>,
     <<"b", "o", "o", "k", "s", " ", "1", "-">>, <<"b", "o", "o", "k", "s", " ", "1", " ">>, <<"v", "o", "l", "u", "m", "e", "s", " ", "1", "-">>, <<"h", "a", "r", "d", "c", "o", "v", "e", "r", " ", "b", "o", "x", " ", "s", "e", "t">>,
     <<"p", "a", "p", "e", "r", "b", "a", "c", "k", " ", "b", "o", "x", " ", "s", "e", "t">>, <<"g", "i", "f", "t", " ", "s", "e", "t">>, <<"o", "m", "n", "i", "b", "u", "s">>, <<"a", "n", "t", "h", "o", "l", "o", "g", "y">>, <<"c", "o", "l", "l", "e", "c", "t", "o", "r">>,
     <<"s", "p", "e", "c", "i", "a", "l", " ", "e", "d", "i", "t", "i", "o", "n", " ", "s", "e", "t">>, <<"d", "e", "l", "u", "x", "e", " ", "e", "d", "i", "t", "i", "o", "n", " ", "s", "e", "t">>, <<"l", "i", "b", "r", "a", "r", "y", " ", "s", "e", "t">>,
     <<"s", "c", "h", "o", "o", "l", " ", "s", "e", "t">>, <<"c", "l", "a", "s", "s", "r", "o", "o", "m", " ", "s", "e", "t">> >>

\* titles of this length or shorter are excluded
ShortTitleLength == 2

\* variant: only titles shorter than ShortTitleLength count as short
isExcludedTitleOffByOne(title) ==
  \/ \E i \in 1..Len(excludedTerms) : Includes(title, excludedTerms[i])
  \/ Len(title) < ShortTitleLength

isExcludedTitle(title) ==
  \/ \E i \in 1..Len(excludedTerms) : Includes(title, excludedTerms[i])
  \/ Len(title) <= ShortTitleLength

(***************************************************************************)
(* Array.prototype.sort.  The comparator's result is coerced to a number   *)
(* and NaN counts as 0.  The sort is stable; when the comparator is not a  *)
(* consistent comparator for the elements the resulting order is           *)
(* implementation-defined, so every permutation is a possible outcome.     *)
(***************************************************************************)
\* the comparator of filterBooks: year descending, then title ascending
\* (b.first_publish_year || 0) - (a.first_publish_year || 0) is NaN when
\* either year is a string that is not a number
yearDiff(a, b) ==
  LET nb == ToNumber(Or(b.first_publish_year, Num(0)))
      na == ToNumber(Or(a.first_publish_year, Num(0)))
  IN  [nan |-> nb.nan \/ na.nan, val |-> nb.val - na.val]

sortComparator(a, b) ==
  LET diff == yearDiff(a, b)
  IN  IF diff.nan \/ diff.val # 0
        THEN diff
        ELSE [nan |-> FALSE, val |-> localeCompare(a.title.str, b.title.str)]

\* SortCompare of the language: NaN is +0; only the sign matters
SortCompare(a, b) ==
  LET v == sortComparator(a, b)
  IN  IF v.nan THEN 0 ELSE IF v.val < 0 THEN -1 ELSE IF v.val > 0 THEN 1 ELSE 0

\* whether the comparator is a consistent comparator for the elements S
ConsistentComparator(S) ==
  LET cmp == [a \in S, b \in S |-> SortCompare(a, b)]
  IN  /\ \A a \in S : cmp[a, a] = 0
      /\ \A a, b \in S : cmp[a, b] = -cmp[b, a]
      /\ \A a, b, c \in S :
           /\ (cmp[a, b] = 0 /\ cmp[b, c] = 0) => cmp[a, c] = 0
           /\ (cmp[a, b] < 0 /\ cmp[b, c] < 0) => cmp[a, c] < 0
           /\ (cmp[a, b] < 0 /\ cmp[b, c] = 0) => cmp[a, c] < 0
           /\ (cmp[a, b] = 0 /\ cmp[b, c] < 0) => cmp[a, c] < 0

\* stable insertion of x into a sorted list: after every element not greater
RECURSIVE InsertSorted(_, _)
InsertSorted(sorted, x) ==
  IF sorted = <<>> THEN <<x>>
  ELSE IF SortCompare(sorted[Len(sorted)], x) > 0
    THEN InsertSorted(SubSeq(sorted, 1, Len(sorted) - 1), x)
           \o <<sorted[Len(sorted)]>>
    ELSE Append(sorted, x)

RECURSIVE StableSort(_)
StableSort(list) ==
  IF list = <<>> THEN <<>>
  ELSE InsertSorted(StableSort(SubSeq(list, 1, Len(list) - 1)), list[Len(list)])

PermutationsOf(list) ==
  {[i \in 1..Len(list) |-> list[p[i]]] : p \in Permutations(1..Len(list))}

\* the possible results of list.sort(comparator)
ArraySort(list) ==
  IF ConsistentComparator(RangeOf(list))
    THEN {StableSort(list)}
    ELSE PermutationsOf(list)

(***************************************************************************)
(* BooksPageManager.filterBooks                                            *)
(***************************************************************************)
\* the second filter: first occurrence of each normalized title, and of
\* those the ones that are not excluded; seenTitles grows as the scan goes
RECURSIVE dedupeAndExclude(_, _)
dedupeAndExclude(books, seenTitles) ==
  IF books = <<>> THEN <<>>
  ELSE LET title == NormalizedTitle(Head(books))
       IN  IF title \in seenTitles
             THEN dedupeAndExclude(Tail(books), seenTitles)
             ELSE (IF isExcludedTitle(title) THEN <<>> ELSE <<Head(books)>>)
                    \o dedupeAndExclude(Tail(books), seenTitles \cup {title})

hasTitleAndYear(book) == Truthy(book.title) /\ Truthy(book.first_publish_year)

\* variant: titles already seen are not skipped
filterBooksKeptNoDedupe(books) ==
  LET notExcluded(book) == ~isExcludedTitle(NormalizedTitle(book))
  IN  SelectSeq(SelectSeq(books, hasTitleAndYear), notExcluded)

\* the records filterBooks keeps, in input order, before the sort
filterBooksKept(books) ==
  dedupeAndExclude(SelectSeq(books, hasTitleAndYear), {})

\* the possible results of filterBooks(books)
filterBooks(books) == ArraySort(filterBooksKept(books))

(***************************************************************************)
(* enhanceBookData(works, searchBooks): the merge of the two endpoints.    *)
(* details[i] is the work detail fetched for works[i]: the parsed detail   *)
(* record when the request succeeded with a 2xx response, and a record     *)
(* with every field undefined (detailedWork = null) when the work has no   *)
(* key or the request failed, was refused or was aborted by the timeout.   *)
(***************************************************************************)
DefaultAuthorKey == Arr(<<<<"O", "L", "2", "3", "9", "1", "9", "A">>>>)
DefaultAuthorName == Arr(<<<<"J", ".", "K", ".", " ", "R", "o", "w", "l", "i", "n", "g">>>>)

\* the key processedTitles records for a title: lower-cased, not trimmed
ProcessedKey(rec) == ToLowerCase(rec.title.str)

\* searchBooksMap: normalized (lower-cased, trimmed) title -> the last search
\* hit with that title; searchMatch looks a work up by its lower-cased title
searchMatchIndex(work, searchBooks) ==
  {i \in 1..Len(searchBooks) :
     /\ Truthy(searchBooks[i].title)
     /\ NormalizedTitle(searchBooks[i]) = ProcessedKey(work)}

Max(S) == CHOOSE x \in S : \A y \in S : y <= x

\* searchMatch?.field is undefined when there is no match
searchMatch(work, searchBooks) ==
  IF searchMatchIndex(work, searchBooks) = {}
    THEN BlankRecord
    ELSE searchBooks[Max(searchMatchIndex(work, searchBooks))]

\* work.covers && work.covers[0]
firstCover(work) ==
  IF ~Truthy(work.covers) THEN work.covers
  ELSE IF work.covers.items = <<>> THEN Undefined
  ELSE Num(work.covers.items[1])

\* detailedWork?.description?.value
descriptionValue(detailedWork) ==
  IF detailedWork.description.kind = "object"
    THEN Str(detailedWork.description.str)
    ELSE Undefined

\* variant: without a detail record the language of the search hit is lost
enhancedBookNeedingDetail(work, match, detailedWork) ==
  [title |-> work.title,
   key |-> work.key,
   covers |-> Or(work.covers, Arr(<<>>)),
   cover_i |-> Or(match.cover_i, firstCover(work)),
   first_publish_year |-> Or(match.first_publish_year, work.first_publish_date),
   first_publish_date |-> Or(work.first_publish_date, match.first_publish_date),
   language |-> IF detailedWork = BlankRecord
                 THEN Arr(<<>>)
                 ELSE Or(match.language, Arr(<<>>)),
   publisher |-> Or(match.publisher, Arr(<<>>)),
   isbn |-> Or(match.isbn, Arr(<<>>)),
   subject |-> Or(match.subject, Or(detailedWork.subjects, Arr(<<>>))),
   subjects |-> Undefined,
   edition_count |-> Or(match.edition_count, Num(1)),
   author_key |-> Or(match.author_key, DefaultAuthorKey),
   author_name |-> Or(match.author_name, DefaultAuthorName),
   description |-> Or(descriptionValue(detailedWork),
                      Or(detailedWork.description, work.description)),
   subtitle |-> Or(detailedWork.subtitle, work.subtitle),
   dewey_decimal_class |-> Or(detailedWork.dewey_decimal_class, Arr(<<>>)),
   lc_classifications |-> Or(detailedWork.lc_classifications, Arr(<<>>))]

enhancedBook(work, match, detailedWork) ==
  [title |-> work.title,
   key |-> work.key,
   covers |-> Or(work.covers, Arr(<<>>)),
   cover_i |-> Or(match.cover_i, firstCover(work)),
   first_publish_year |-> Or(match.first_publish_year, work.first_publish_date),
   first_publish_date |-> Or(work.first_publish_date, match.first_publish_date),
   language |-> Or(match.language, Arr(<<>>)),
   publisher |-> Or(match.publisher, Arr(<<>>)),
   isbn |-> Or(match.isbn, Arr(<<>>)),
   subject |-> Or(match.subject, Or(detailedWork.subjects, Arr(<<>>))),
   subjects |-> Undefined,
   edition_count |-> Or(match.edition_count, Num(1)),
   author_key |-> Or(match.author_key, DefaultAuthorKey),
   author_name |-> Or(match.author_name, DefaultAuthorName),
   description |-> Or(descriptionValue(detailedWork),
                      Or(detailedWork.description, work.description)),
   subtitle |-> Or(detailedWork.subtitle, work.subtitle),
   dewey_decimal_class |-> Or(detailedWork.dewey_decimal_class, Arr(<<>>)),
   lc_classifications |-> Or(detailedWork.lc_classifications, Arr(<<>>))]

\* a search hit that matched no work: the hit itself with key, covers and
\* the author fields filled in (key || null is modelled as key || undefined)
searchOnlyBook(searchBook) ==
  [searchBook EXCEPT
     !.key = Or(searchBook.key, Undefined),
     !.covers = IF Truthy(searchBook.cover_i)
                  THEN Arr(<<searchBook.cover_i.num>>)
                  ELSE Arr(<<>>),
     !.author_key = Or(searchBook.author_key, DefaultAuthorKey),
     !.author_name = Or(searchBook.author_name, DefaultAuthorName)]

\* the for-of loop over works, from index i on
RECURSIVE enhanceWorks(_, _, _, _, _)
enhanceWorks(works, searchBooks, details, i, processedTitles) ==
  IF i > Len(works)
    THEN [books |-> <<>>, processedTitles |-> processedTitles]
  ELSE IF ~Truthy(works[i].title) \/ ProcessedKey(works[i]) \in processedTitles
    THEN enhanceWorks(works, searchBooks, details, i + 1, processedTitles)
  ELSE LET rest == enhanceWorks(works, searchBooks, details, i + 1,
                                processedTitles \cup {ProcessedKey(works[i])})
       IN  [books |-> <<enhancedBook(works[i],
                                     searchMatch(works[i], searchBooks),
                                     details[i])>> \o rest.books,
            processedTitles |-> rest.processedTitles]

\* the forEach over searchBooks that adds the hits no work recorded
RECURSIVE addSearchOnly(_, _)
addSearchOnly(searchBooks, processedTitles) ==
  IF searchBooks = <<>> THEN <<>>
  ELSE IF Truthy(Head(searchBooks).title)
            /\ ProcessedKey(Head(searchBooks)) \notin processedTitles
    THEN <<searchOnlyBook(Head(searchBooks))>>
           \o addSearchOnly(Tail(searchBooks),
                            processedTitles \cup {ProcessedKey(Head(searchBooks))})
    ELSE addSearchOnly(Tail(searchBooks), processedTitles)

enhanceBookData(works, searchBooks, details) ==
  LET fromWorks == enhanceWorks(works, searchBooks, details, 1, {})
  IN  fromWorks.books \o addSearchOnly(searchBooks, fromWorks.processedTitles)

\* a title that is neither a string nor falsy makes title.toLowerCase throw
enhanceBookDataThrows(works, searchBooks) ==
  \/ \E i \in 1..Len(works) :
       Truthy(works[i].title) /\ works[i].title.kind # "string"
  \/ \E i \in 1..Len(searchBooks) :
       Truthy(searchBooks[i].title) /\ searchBooks[i].title.kind # "string"

(***************************************************************************)
(* More string primitives: indexOf, split, replace, join.                  *)
(***************************************************************************)
\* the least 1-based position of t in s, 0 when s does not include t
IndexOfSub(s, t) ==
  IF Includes(s, t)
    THEN CHOOSE i \in 1..(Len(s) - Len(t) + 1) :
           /\ SubSeq(s, i, i + Len(t) - 1) = t
           /\ \A j \in 1..(i - 1) : SubSeq(s, j, j + Len(t) - 1) # t
    ELSE 0

\* String.prototype.split with a non-empty separator
RECURSIVE Split(_, _)
Split(s, sep) ==
  IF IndexOfSub(s, sep) = 0
    THEN <<s>>
    ELSE <<SubSeq(s, 1, IndexOfSub(s, sep) - 1)>>
           \o Split(SubSeq(s, IndexOfSub(s, sep) + Len(sep), Len(s)), sep)

\* String.prototype.replace with a string pattern: the first occurrence
ReplaceFirst(s, t, r) ==
  IF IndexOfSub(s, t) = 0
    THEN s
    ELSE SubSeq(s, 1, IndexOfSub(s, t) - 1) \o r
           \o SubSeq(s, IndexOfSub(s, t) + Len(t), Len(s))

\* Array.prototype.join
RECURSIVE Join(_, _)
Join(parts, sep) ==
  IF parts = <<>> THEN <<>>
  ELSE IF Len(parts) = 1 THEN parts[1]
  ELSE parts[1] \o sep \o Join(Tail(parts), sep)

\* replace(/\s+/g, ' '): every run of white space becomes one space
RECURSIVE CollapseWhiteSpace(_)
CollapseWhiteSpace(s) ==
  IF s = <<>> THEN <<>>
  ELSE IF Head(s) \in WhiteSpace
    THEN <<" ">> \o CollapseWhiteSpace(TrimStart(s))
    ELSE <<Head(s)>> \o CollapseWhiteSpace(Tail(s))

(***************************************************************************)
(* BooksPageManager.capitalizeFirst and categorizeGenre.  A null result    *)
(* is modelled by the empty string: every caller tests the result for      *)
(* truthiness or compares it with a non-empty genre.                       *)
(***************************************************************************)
capitalizeFirst(str) ==
  IF str = <<>> THEN <<>>
  ELSE <<ToUpperChar(str[1])>> \o ToLowerCase(Tail(str))

\* subjects longer than this are rejected
MaxSubjectLength == 60
\* subjects longer than this are not kept verbatim
MaxVerbatimLength == 40

excludedSubjectWords ==
  << <<"-", "-">>, <<"(">>, <<"j", "u", "v", "e", "n", "i", "l", "e">>, <<"a", "c", "c", "e", "s", "s", "i", "b", "l", "e", " ", "b", "o", "o", "k">>, <<"l", "a", "r", "g", "e", " ", "t", "y", "p", "e", " ", "b", "o", "o", "k", "s">>,
     <<"r", "e", "a", "d", "e", "r", "s">>, <<"g", "r", "a", "d", "e">>, <<"b", "i", "b", "l", "i", "o", "g", "r", "a", "p", "h", "y">>, <<"i", "n", "d", "e", "x", "e", "s">> >>

\* the key/category pairs of genreMapping, in the order of the literal
genreMapping ==
  <<
     <<<<"f", "a", "n", "t", "a", "s", "y">>, <<"F", "a", "n", "t", "a", "s", "y">>>>,
     <<<<"m", "a", "g", "i", "c">>, <<"F", "a", "n", "t", "a", "s", "y">>>>,
     <<<<"w", "i", "z", "a", "r", "d", "s">>, <<"F", "a", "n", "t", "a", "s", "y">>>>,
     <<<<"w", "i", "t", "c", "h", "e", "s">>, <<"F", "a", "n", "t", "a", "s", "y">>>>,
     <<<<"m", "a", "g", "i", "c", "a", "l">>, <<"F", "a", "n", "t", "a", "s", "y">>>>,
     <<<<"s", "u", "p", "e", "r", "n", "a", "t", "u", "r", "a", "l">>, <<"F", "a", "n", "t", "a", "s", "y">>>>,
     <<<<"m", "y", "t", "h", "o", "l", "o", "g", "y">>, <<"F", "a", "n", "t", "a", "s", "y", " ", "&", " ", "M", "y", "t", "h", "o", "l", "o", "g", "y">>>>,
     <<<<"f", "a", "i", "r", "y", " ", "t", "a", "l", "e", "s">>, <<"F", "a", "n", "t", "a", "s", "y", " ", "&", " ", "F", "a", "i", "r", "y", " ", "T", "a", "l", "e", "s">>>>,
     <<<<"d", "e", "t", "e", "c", "t", "i", "v", "e">>, <<"M", "y", "s", "t", "e", "r", "y", " ", "&", " ", "D", "e", "t", "e", "c", "t", "i", "v", "e">>>>,
     <<<<"m", "y", "s", "t", "e", "r", "y">>, <<"M", "y", "s", "t", "e", "r", "y", " ", "&", " ", "D", "e", "t", "e", "c", "t", "i", "v", "e">>>>,
     <<<<"c", "r", "i", "m", "e">>, <<"C", "r", "i", "m", "e", " ", "&", " ", "M", "y", "s", "t", "e", "r", "y">>>>,
     <<<<"t", "h", "r", "i", "l", "l", "e", "r">>, <<"T", "h", "r", "i", "l", "l", "e", "r">>>>,
     <<<<"s", "u", "s", "p", "e", "n", "s", "e">>, <<"S", "u", "s", "p", "e", "n", "s", "e">>>>,
     <<<<"p", "o", "l", "i", "c", "e">>, <<"C", "r", "i", "m", "e", " ", "&", " ", "D", "e", "t", "e", "c", "t", "i", "v", "e">>>>,
     <<<<"f", "i", "c", "t", "i", "o", "n">>, <<"F", "i", "c", "t", "i", "o", "n">>>>,
     <<<<"l", "i", "t", "e", "r", "a", "r", "y", " ", "f", "i", "c", "t", "i", "o", "n">>, <<"L", "i", "t", "e", "r", "a", "r", "y", " ", "F", "i", "c", "t", "i", "o", "n">>>>,
     <<<<"c", "o", "n", "t", "e", "m", "p", "o", "r", "a", "r", "y", " ", "f", "i", "c", "t", "i", "o", "n">>, <<"C", "o", "n", "t", "e", "m", "p", "o", "r", "a", "r", "y", " ", "F", "i", "c", "t", "i", "o", "n">>>>,
     <<<<"h", "i", "s", "t", "o", "r", "i", "c", "a", "l", " ", "f", "i", "c", "t", "i", "o", "n">>, <<"H", "i", "s", "t", "o", "r", "i", "c", "a", "l", " ", "F", "i", "c", "t", "i", "o", "n">>>>,
     <<<<"a", "d", "v", "e", "n", "t", "u", "r", "e">>, <<"A", "d", "v", "e", "n", "t", "u", "r", "e", " ", "F", "i", "c", "t", "i", "o", "n">>>>,
     <<<<"r", "o", "m", "a", "n", "c", "e">>, <<"R", "o", "m", "a", "n", "c", "e">>>>,
     <<<<"c", "h", "i", "l", "d", "r", "e", "n">>, <<"C", "h", "i", "l", "d", "r", "e", "n", "'", "s", " ", "L", "i", "t", "e", "r", "a", "t", "u", "r", "e">>>>,
     <<<<"y", "o", "u", "n", "g", " ", "a", "d", "u", "l", "t">>, <<"Y", "o", "u", "n", "g", " ", "A", "d", "u", "l", "t", " ", "F", "i", "c", "t", "i", "o", "n">>>>,
     <<<<"t", "e", "e", "n">>, <<"Y", "o", "u", "n", "g", " ", "A", "d", "u", "l", "t", " ", "F", "i", "c", "t", "i", "o", "n">>>>,
     <<<<"j", "u", "v", "e", "n", "i", "l", "e", " ", "f", "i", "c", "t", "i", "o", "n">>, <<"C", "h", "i", "l", "d", "r", "e", "n", "'", "s", " ", "F", "i", "c", "t", "i", "o", "n">>>>,
     <<<<"b", "i", "o", "g", "r", "a", "p", "h", "y">>, <<"B", "i", "o", "g", "r", "a", "p", "h", "y", " ", "&", " ", "M", "e", "m", "o", "i", "r">>>>,
     <<<<"a", "u", "t", "o", "b", "i", "o", "g", "r", "a", "p", "h", "y">>, <<"B", "i", "o", "g", "r", "a", "p", "h", "y", " ", "&", " ", "M", "e", "m", "o", "i", "r">>>>,
     <<<<"m", "e", "m", "o", "i", "r">>, <<"B", "i", "o", "g", "r", "a", "p", "h", "y", " ", "&", " ", "M", "e", "m", "o", "i", "r">>>>,
     <<<<"b", "i", "o", "g", "r", "a", "p", "h", "y", " ", "&", " ", "a", "u", "t", "o", "b", "i", "o", "g", "r", "a", "p", "h", "y">>, <<"B", "i", "o", "g", "r", "a", "p", "h", "y", " ", "&", " ", "M", "e", "m", "o", "i", "r">>>>,
     <<<<"p", "h", "i", "l", "o", "s", "o", "p", "h", "y">>, <<"P", "h", "i", "l", "o", "s", "o", "p", "h", "y">>>>,
     <<<<"p", "s", "y", "c", "h", "o", "l", "o", "g", "y">>, <<"P", "s", "y", "c", "h", "o", "l", "o", "g", "y">>>>,
     <<<<"p", "o", "l", "i", "t", "i", "c", "s">>, <<"P", "o", "l", "i", "t", "i", "c", "s", " ", "&", " ", "G", "o", "v", "e", "r", "n", "m", "e", "n", "t">>>>,
     <<<<"h", "i", "s", "t", "o", "r", "y">>, <<"H", "i", "s", "t", "o", "r", "y">>>>,
     <<<<"s", "c", "i", "e", "n", "c", "e">>, <<"S", "c", "i", "e", "n", "c", "e">>>>,
     <<<<"e", "d", "u", "c", "a", "t", "i", "o", "n">>, <<"E", "d", "u", "c", "a", "t", "i", "o", "n">>>>,
     <<<<"s", "o", "c", "i", "a", "l">>, <<"S", "o", "c", "i", "a", "l", " ", "I", "s", "s", "u", "e", "s">>>>,
     <<<<"s", "o", "c", "i", "o", "l", "o", "g", "y">>, <<"S", "o", "c", "i", "a", "l", " ", "S", "c", "i", "e", "n", "c", "e", "s">>>>,
     <<<<"f", "r", "i", "e", "n", "d", "s", "h", "i", "p">>, <<"F", "r", "i", "e", "n", "d", "s", "h", "i", "p", " ", "&", " ", "R", "e", "l", "a", "t", "i", "o", "n", "s", "h", "i", "p", "s">>>>,
     <<<<"c", "o", "m", "i", "n", "g", " ", "o", "f", " ", "a", "g", "e">>, <<"C", "o", "m", "i", "n", "g", " ", "o", "f", " ", "A", "g", "e">>>>,
     <<<<"s", "c", "h", "o", "o", "l">>, <<"S", "c", "h", "o", "o", "l", " ", "S", "t", "o", "r", "i", "e", "s">>>>,
     <<<<"b", "o", "a", "r", "d", "i", "n", "g", " ", "s", "c", "h", "o", "o", "l">>, <<"S", "c", "h", "o", "o", "l", " ", "S", "t", "o", "r", "i", "e", "s">>>>,
     <<<<"o", "r", "p", "h", "a", "n", "s">>, <<"F", "a", "m", "i", "l", "y", " ", "&", " ", "S", "o", "c", "i", "a", "l", " ", "I", "s", "s", "u", "e", "s">>>>,
     <<<<"f", "a", "m", "i", "l", "i", "e", "s">>, <<"F", "a", "m", "i", "l", "y", " ", "S", "t", "o", "r", "i", "e", "s">>>>,
     <<<<"l", "o", "n", "d", "o", "n">>, <<"B", "r", "i", "t", "i", "s", "h", " ", "L", "i", "t", "e", "r", "a", "t", "u", "r", "e">>>>,
     <<<<"e", "n", "g", "l", "a", "n", "d">>, <<"B", "r", "i", "t", "i", "s", "h", " ", "L", "i", "t", "e", "r", "a", "t", "u", "r", "e">>>>,
     <<<<"b", "r", "i", "t", "i", "s", "h">>, <<"B", "r", "i", "t", "i", "s", "h", " ", "L", "i", "t", "e", "r", "a", "t", "u", "r", "e">>>>,
     <<<<"s", "c", "o", "t", "l", "a", "n", "d">>, <<"S", "c", "o", "t", "t", "i", "s", "h", " ", "L", "i", "t", "e", "r", "a", "t", "u", "r", "e">>>>,
     <<<<"f", "i", "l", "m">>, <<"F", "i", "l", "m", " ", "A", "d", "a", "p", "t", "a", "t", "i", "o", "n", "s">>>>,
     <<<<"m", "o", "v", "i", "e">>, <<"F", "i", "l", "m", " ", "A", "d", "a", "p", "t", "a", "t", "i", "o", "n", "s">>>>,
     <<<<"t", "e", "l", "e", "v", "i", "s", "i", "o", "n">>, <<"T", "V", " ", "A", "d", "a", "p", "t", "a", "t", "i", "o", "n", "s">>>>,
     <<<<"a", "d", "a", "p", "t", "a", "t", "i", "o", "n">>, <<"A", "d", "a", "p", "t", "a", "t", "i", "o", "n", "s">>>>,
     <<<<"a", "u", "t", "h", "o", "r", "s", "h", "i", "p">>, <<"W", "r", "i", "t", "i", "n", "g", " ", "&", " ", "P", "u", "b", "l", "i", "s", "h", "i", "n", "g">>>>,
     <<<<"l", "i", "t", "e", "r", "a", "r", "y", " ", "c", "r", "i", "t", "i", "c", "i", "s", "m">>, <<"L", "i", "t", "e", "r", "a", "r", "y", " ", "C", "r", "i", "t", "i", "c", "i", "s", "m">>>>,
     <<<<"b", "o", "o", "k", " ", "c", "l", "u", "b", "s">>, <<"R", "e", "a", "d", "i", "n", "g", " ", "&", " ", "B", "o", "o", "k", " ", "C", "u", "l", "t", "u", "r", "e">>>>
  >>

genreKeys == {genreMapping[i][1] : i \in 1..Len(genreMapping)}

\* genreMapping[key] for a key of the table
genreOf(key) ==
  genreMapping[CHOOSE i \in 1..Len(genreMapping) : genreMapping[i][1] = key][2]

isRejectedSubject(lowerSubject) ==
  \/ Len(lowerSubject) > MaxSubjectLength
  \/ \E i \in 1..Len(excludedSubjectWords) :
       Includes(lowerSubject, excludedSubjectWords[i])
  \/ (lowerSubject # <<>> /\ lowerSubject[1] \in RangeOf(DecimalDigits))

\* variant: the last key the subject includes wins
lastPartialMatch(lowerSubject, i) ==
  IF \E k \in i..Len(genreMapping) : Includes(lowerSubject, genreMapping[k][1])
    THEN Max({k \in i..Len(genreMapping) : Includes(lowerSubject, genreMapping[k][1])})
    ELSE 0

\* the for-of loop over Object.entries(genreMapping): the index of the first
\* key, from index i on, that the subject includes; 0 when there is none
RECURSIVE firstPartialMatch(_, _)
firstPartialMatch(lowerSubject, i) ==
  IF i > Len(genreMapping) THEN 0
  ELSE IF Includes(lowerSubject, genreMapping[i][1]) THEN i
  ELSE firstPartialMatch(lowerSubject, i + 1)

Min(S) == CHOOSE x \in S : \A y \in S : x <= y

\* the trimmed parts of "a and b" that are keys of the table
compoundMatches(lowerSubject) ==
  LET parts == Split(lowerSubject, <<" ", "a", "n", "d", " ">>)
  IN  {i \in 1..Len(parts) : Trim(parts[i]) \in genreKeys}

\* the verbatim branch: each word capitalized, white space collapsed
titleCased(subject) ==
  LET words == Split(subject, <<" ">>)
  IN  Trim(CollapseWhiteSpace(
        Join([i \in 1..Len(words) |-> capitalizeFirst(words[i])], <<" ">>)))

categorizeGenre(subject) ==
  LET lowerSubject == Trim(ToLowerCase(subject))
  IN  IF subject = <<>> THEN <<>>
      ELSE IF isRejectedSubject(lowerSubject) THEN <<>>
      ELSE IF lowerSubject \in genreKeys THEN genreOf(lowerSubject)
      ELSE IF firstPartialMatch(lowerSubject, 1) # 0
        THEN genreMapping[firstPartialMatch(lowerSubject, 1)][2]
      ELSE IF Includes(lowerSubject, <<" ", "a", "n", "d", " ">>)
                /\ compoundMatches(lowerSubject) # {}
        THEN genreOf(Trim(Split(lowerSubject, <<" ", "a", "n", "d", " ">>)
                            [Min(compoundMatches(lowerSubject))]))
      ELSE IF Includes(lowerSubject, <<" ", "i", "n", " ", "l", "i", "t", "e", "r", "a", "t", "u", "r", "e">>)
        THEN capitalizeFirst(Trim(ReplaceFirst(lowerSubject,
                                               <<" ", "i", "n", " ", "l", "i", "t", "e", "r", "a", "t", "u", "r", "e">>, <<>>)))
               \o <<" ", "i", "n", " ", "L", "i", "t", "e", "r", "a", "t", "u", "r", "e">>
      ELSE IF Len(subject) <= MaxVerbatimLength
                /\ ~Includes(lowerSubject, <<"/">>)
                /\ ~Includes(lowerSubject, <<",">>)
        THEN titleCased(subject)
      ELSE <<>>

(***************************************************************************)
(* BooksPageManager.fuzzySearch(query, text), on strings; an undefined     *)
(* argument is the empty string, which is falsy too.                       *)
(***************************************************************************)
\* matches / query.length >= 0.7, in tenths
FuzzyThresholdTenths == 7
Tenths == 10

\* variant: a matched character of the text is not consumed
RECURSIVE fuzzyScanNoAdvance(_, _, _, _, _)
fuzzyScanNoAdvance(query, text, queryIndex, textIndex, matches) ==
  IF queryIndex <= Len(query) /\ textIndex <= Len(text)
    THEN IF query[queryIndex] = text[textIndex]
           THEN fuzzyScanNoAdvance(query, text, queryIndex + 1, textIndex, matches + 1)
           ELSE fuzzyScanNoAdvance(query, text, queryIndex, textIndex + 1, matches)
    ELSE matches

\* the while loop: matches counted from positions queryIndex, textIndex on
RECURSIVE fuzzyScan(_, _, _, _, _)
fuzzyScan(query, text, queryIndex, textIndex, matches) ==
  IF queryIndex <= Len(query) /\ textIndex <= Len(text)
    THEN IF query[queryIndex] = text[textIndex]
           THEN fuzzyScan(query, text, queryIndex + 1, textIndex + 1, matches + 1)
           ELSE fuzzyScan(query, text, queryIndex, textIndex + 1, matches)
    ELSE matches

fuzzySearch(query, text) ==
  IF query = <<>> \/ text = <<>> THEN FALSE
  ELSE IF Includes(ToLowerCase(text), ToLowerCase(query)) THEN TRUE
  ELSE Tenths * fuzzyScan(ToLowerCase(query), ToLowerCase(text), 1, 1, 0)
         >= FuzzyThresholdTenths * Len(query)

(***************************************************************************)
(* BooksPageManager.applySearchFilter and the body of the applyFilters     *)
(* timeout callback.                                                       *)
(***************************************************************************)
\* variant: the search looks at the title and the year only
matchesSearchTitleOnly(book, query) ==
  \/ fuzzySearch(query, book.title.str)
  \/ /\ Truthy(book.first_publish_year)
     /\ Includes(query, ValueToString(book.first_publish_year))

matchesSearch(book, query) ==
  \/ fuzzySearch(query, book.title.str)
  \/ /\ Truthy(book.first_publish_year)
     /\ Includes(query, ValueToString(book.first_publish_year))
  \/ /\ Truthy(book.subject)
     /\ \E i \in 1..Len(book.subject.items) :
          fuzzySearch(query, book.subject.items[i])
  \/ (Truthy(book.subtitle) /\ fuzzySearch(query, book.subtitle.str))

applySearchFilter(books, query) ==
  LET keep(book) == matchesSearch(book, query)
  IN  SelectSeq(books, keep)

matchesLanguage(book, language) ==
  /\ Truthy(book.language)
  /\ \E i \in 1..Len(book.language.items) : book.language.items[i] = language

matchesYear(book, year) ==
  /\ Truthy(book.first_publish_year)
  /\ ValueToString(book.first_publish_year) = year

matchesGenre(book, genre) ==
  /\ Truthy(book.subject)
  /\ \E i \in 1..Len(book.subject.items) :
       categorizeGenre(book.subject.items[i]) = genre

\* variant: the search text is tested without trim
applyFiltersResultNoTrim(books, filters) ==
  LET bySearch ==
        IF filters.search # <<>>
          THEN applySearchFilter(books, filters.search)
          ELSE books
      keepLanguage(book) == matchesLanguage(book, filters.language)
      byLanguage ==
        IF filters.language # <<>>
          THEN SelectSeq(bySearch, keepLanguage)
          ELSE bySearch
      keepYear(book) == matchesYear(book, filters.year)
      byYear ==
        IF filters.year # <<>> THEN SelectSeq(byLanguage, keepYear) ELSE byLanguage
      keepGenre(book) == matchesGenre(book, filters.genre)
  IN  IF filters.genre # <<>> THEN SelectSeq(byYear, keepGenre) ELSE byYear

\* the value the timeout callback assigns to filteredBooks
applyFiltersResult(books, filters) ==
  LET bySearch ==
        IF Trim(filters.search) # <<>>
          THEN applySearchFilter(books, filters.search)
          ELSE books
      keepLanguage(book) == matchesLanguage(book, filters.language)
      byLanguage ==
        IF filters.language # <<>>
          THEN SelectSeq(bySearch, keepLanguage)
          ELSE bySearch
      keepYear(book) == matchesYear(book, filters.year)
      byYear ==
        IF filters.year # <<>> THEN SelectSeq(byLanguage, keepYear) ELSE byLanguage
      keepGenre(book) == matchesGenre(book, filters.genre)
  IN  IF filters.genre # <<>> THEN SelectSeq(byYear, keepGenre) ELSE byYear

(***************************************************************************)
(* The option values populateFilterDropdowns puts in the three dropdowns   *)
(* (besides the empty "All ..." option).                                   *)
(***************************************************************************)
ItemsOf(arr) == IF Truthy(arr) THEN RangeOf(arr.items) ELSE {}

languageOptions(books) ==
  {Trim(lang) : lang \in
     {l \in UNION {ItemsOf(books[i].language) : i \in 1..Len(books)} :
        Trim(l) # <<>>}}

\* the code/name pairs of languageNames
languageNames ==
  <<
     <<<<"e", "n", "g">>, <<"E", "n", "g", "l", "i", "s", "h">>>>,
     <<<<"e", "n">>, <<"E", "n", "g", "l", "i", "s", "h">>>>,
     <<<<"e", "n", "g", "l", "i", "s", "h">>, <<"E", "n", "g", "l", "i", "s", "h">>>>,
     <<<<"f", "r", "e">>, <<"F", "r", "e", "n", "c", "h">>>>,
     <<<<"f", "r">>, <<"F", "r", "e", "n", "c", "h">>>>,
     <<<<"f", "r", "e", "n", "c", "h">>, <<"F", "r", "e", "n", "c", "h">>>>,
     <<<<"g", "e", "r">>, <<"G", "e", "r", "m", "a", "n">>>>,
     <<<<"d", "e">>, <<"G", "e", "r", "m", "a", "n">>>>,
     <<<<"g", "e", "r", "m", "a", "n">>, <<"G", "e", "r", "m", "a", "n">>>>,
     <<<<"s", "p", "a">>, <<"S", "p", "a", "n", "i", "s", "h">>>>,
     <<<<"e", "s">>, <<"S", "p", "a", "n", "i", "s", "h">>>>,
     <<<<"s", "p", "a", "n", "i", "s", "h">>, <<"S", "p", "a", "n", "i", "s", "h">>>>,
     <<<<"i", "t", "a">>, <<"I", "t", "a", "l", "i", "a", "n">>>>,
     <<<<"i", "t">>, <<"I", "t", "a", "l", "i", "a", "n">>>>,
     <<<<"i", "t", "a", "l", "i", "a", "n">>, <<"I", "t", "a", "l", "i", "a", "n">>>>,
     <<<<"p", "o", "r">>, <<"P", "o", "r", "t", "u", "g", "u", "e", "s", "e">>>>,
     <<<<"p", "t">>, <<"P", "o", "r", "t", "u", "g", "u", "e", "s", "e">>>>,
     <<<<"p", "o", "r", "t", "u", "g", "u", "e", "s", "e">>, <<"P", "o", "r", "t", "u", "g", "u", "e", "s", "e">>>>,
     <<<<"r", "u", "s">>, <<"R", "u", "s", "s", "i", "a", "n">>>>,
     <<<<"r", "u">>, <<"R", "u", "s", "s", "i", "a", "n">>>>,
     <<<<"r", "u", "s", "s", "i", "a", "n">>, <<"R", "u", "s", "s", "i", "a", "n">>>>,
     <<<<"j", "p", "n">>, <<"J", "a", "p", "a", "n", "e", "s", "e">>>>,
     <<<<"j", "a">>, <<"J", "a", "p", "a", "n", "e", "s", "e">>>>,
     <<<<"j", "a", "p", "a", "n", "e", "s", "e">>, <<"J", "a", "p", "a", "n", "e", "s", "e">>>>,
     <<<<"c", "h", "i">>, <<"C", "h", "i", "n", "e", "s", "e">>>>,
     <<<<"z", "h">>, <<"C", "h", "i", "n", "e", "s", "e">>>>,
     <<<<"c", "h", "i", "n", "e", "s", "e">>, <<"C", "h", "i", "n", "e", "s", "e">>>>,
     <<<<"a", "r", "a">>, <<"A", "r", "a", "b", "i", "c">>>>,
     <<<<"a", "r">>, <<"A", "r", "a", "b", "i", "c">>>>,
     <<<<"a", "r", "a", "b", "i", "c">>, <<"A", "r", "a", "b", "i", "c">>>>,
     <<<<"h", "i", "n">>, <<"H", "i", "n", "d", "i">>>>,
     <<<<"h", "i">>, <<"H", "i", "n", "d", "i">>>>,
     <<<<"h", "i", "n", "d", "i">>, <<"H", "i", "n", "d", "i">>>>,
     <<<<"d", "u", "t">>, <<"D", "u", "t", "c", "h">>>>,
     <<<<"n", "l">>, <<"D", "u", "t", "c", "h">>>>,
     <<<<"d", "u", "t", "c", "h">>, <<"D", "u", "t", "c", "h">>>>,
     <<<<"s", "w", "e">>, <<"S", "w", "e", "d", "i", "s", "h">>>>,
     <<<<"s", "v">>, <<"S", "w", "e", "d", "i", "s", "h">>>>,
     <<<<"s", "w", "e", "d", "i", "s", "h">>, <<"S", "w", "e", "d", "i", "s", "h">>>>,
     <<<<"n", "o", "r">>, <<"N", "o", "r", "w", "e", "g", "i", "a", "n">>>>,
     <<<<"n", "o">>, <<"N", "o", "r", "w", "e", "g", "i", "a", "n">>>>,
     <<<<"n", "o", "r", "w", "e", "g", "i", "a", "n">>, <<"N", "o", "r", "w", "e", "g", "i", "a", "n">>>>,
     <<<<"d", "a", "n">>, <<"D", "a", "n", "i", "s", "h">>>>,
     <<<<"d", "a">>, <<"D", "a", "n", "i", "s", "h">>>>,
     <<<<"d", "a", "n", "i", "s", "h">>, <<"D", "a", "n", "i", "s", "h">>>>,
     <<<<"f", "i", "n">>, <<"F", "i", "n", "n", "i", "s", "h">>>>,
     <<<<"f", "i">>, <<"F", "i", "n", "n", "i", "s", "h">>>>,
     <<<<"f", "i", "n", "n", "i", "s", "h">>, <<"F", "i", "n", "n", "i", "s", "h">>>>,
     <<<<"p", "o", "l">>, <<"P", "o", "l", "i", "s", "h">>>>,
     <<<<"p", "l">>, <<"P", "o", "l", "i", "s", "h">>>>,
     <<<<"p", "o", "l", "i", "s", "h">>, <<"P", "o", "l", "i", "s", "h">>>>,
     <<<<"c", "z", "e">>, <<"C", "z", "e", "c", "h">>>>,
     <<<<"c", "s">>, <<"C", "z", "e", "c", "h">>>>,
     <<<<"c", "z", "e", "c", "h">>, <<"C", "z", "e", "c", "h">>>>,
     <<<<"h", "u", "n">>, <<"H", "u", "n", "g", "a", "r", "i", "a", "n">>>>,
     <<<<"h", "u">>, <<"H", "u", "n", "g", "a", "r", "i", "a", "n">>>>,
     <<<<"h", "u", "n", "g", "a", "r", "i", "a", "n">>, <<"H", "u", "n", "g", "a", "r", "i", "a", "n">>>>,
     <<<<"t", "u", "r">>, <<"T", "u", "r", "k", "i", "s", "h">>>>,
     <<<<"t", "r">>, <<"T", "u", "r", "k", "i", "s", "h">>>>,
     <<<<"t", "u", "r", "k", "i", "s", "h">>, <<"T", "u", "r", "k", "i", "s", "h">>>>,
     <<<<"g", "r", "e">>, <<"G", "r", "e", "e", "k">>>>,
     <<<<"e", "l">>, <<"G", "r", "e", "e", "k">>>>,
     <<<<"g", "r", "e", "e", "k">>, <<"G", "r", "e", "e", "k">>>>,
     <<<<"h", "e", "b">>, <<"H", "e", "b", "r", "e", "w">>>>,
     <<<<"h", "e">>, <<"H", "e", "b", "r", "e", "w">>>>,
     <<<<"h", "e", "b", "r", "e", "w">>, <<"H", "e", "b", "r", "e", "w">>>>,
     <<<<"k", "o", "r">>, <<"K", "o", "r", "e", "a", "n">>>>,
     <<<<"k", "o">>, <<"K", "o", "r", "e", "a", "n">>>>,
     <<<<"k", "o", "r", "e", "a", "n">>, <<"K", "o", "r", "e", "a", "n">>>>,
     <<<<"v", "i", "e">>, <<"V", "i", "e", "t", "n", "a", "m", "e", "s", "e">>>>,
     <<<<"v", "i">>, <<"V", "i", "e", "t", "n", "a", "m", "e", "s", "e">>>>,
     <<<<"v", "i", "e", "t", "n", "a", "m", "e", "s", "e">>, <<"V", "i", "e", "t", "n", "a", "m", "e", "s", "e">>>>,
     <<<<"t", "h", "a">>, <<"T", "h", "a", "i">>>>,
     <<<<"t", "h">>, <<"T", "h", "a", "i">>>>,
     <<<<"t", "h", "a", "i">>, <<"T", "h", "a", "i">>>>
  >>

\* variant: the table of names is not consulted
getLanguageNameNoTable(langCode) == capitalizeFirst(langCode)

\* the text of the option of a language code
getLanguageName(langCode) ==
  LET lowerCode == ToLowerCase(langCode)
      named == {i \in 1..Len(languageNames) : languageNames[i][1] = lowerCode}
  IN  IF named # {}
        THEN languageNames[CHOOSE i \in named : TRUE][2]
        ELSE capitalizeFirst(langCode)

yearOptions(books) ==
  {ValueToString(books[i].first_publish_year) :
     i \in {j \in 1..Len(books) : Truthy(books[j].first_publish_year)}}

genreOptions(books) ==
  {categorizeGenre(Trim(subject)) : subject \in
     {s \in UNION {ItemsOf(books[i].subject) : i \in 1..Len(books)} :
        Trim(s) # <<>>}} \ {<<>>}

(***************************************************************************)
(* State.                                                                  *)
(***************************************************************************)
VARIABLES
  \* BooksPageManager
  allBooks,         \* this.allBooks
  filteredBooks,    \* this.filteredBooks
  currentFilters,   \* this.currentFilters
  dropdowns,        \* the option values of the three filter dropdowns
  debounceTimer,    \* TRUE while the timeout of debouncedFilter is pending
  filterTimers,     \* number of pending applyFilters timeouts
  display,          \* which of the loading, error and books elements show
  fetching,         \* TRUE while fetchBooks awaits the catalog
  callbackRuns,     \* applyFilters callbacks run since any other handler ran
  \* the inputs and the output of enhanceBookData
  works, searchBooks, details, enhancedBooks, stage,
  \* an evaluation of fuzzySearch
  fuzzyQuery, fuzzyText, fuzzyResult,
  \* apiService: the fetch implementation, the cache, the clock, the
  \* cachedFetch calls of one fetchDetailedJKRowlingBooks call, its position
  \* and its outcome, and the number of calls made
  responseOwnsOk, apiCache, clock, requests, fetchPc, fetchResult, invocations,
  \* a call of generateBookDescription: the book, the answer of the dataset
  \* request, the position and the outcome; an evaluation of categorizeGenre
  descBook, descOutcome, descPc, descResult, genreSubject, genreResult,
  \* a function wrapped by debounce: the timer id it keeps, the timers that
  \* are set, the calls of the wrapper and of func, and the time elapsed
  timeout, timers, calls, funcCalls, elapsed,
  \* the modal of the books page: whether it is displayed, the book passed
  \* to showWithBook last, the content of the description element, the
  \* description requests in flight and the calls of showWithBook so far
  modalOpen, modalBook, modalDescription, modalRequests, modalShows,
  \* descriptionCache of the page manager
  descriptionCache,
  \* the featured-books carousel: the position of loadBooks, the interval id
  \* it keeps, the interval timers that are active, the ids handed out, the
  \* pending resume timeouts, the interaction flag, whether the pointer is
  \* over the container, and the scroll position and direction
  carouselPc, autoScrollInterval, intervals, intervalsSet, resumeTimers,
  isUserInteracting, pointerInside, currentPosition, autoScrollDirection,
  \* preGenerateDescriptions: the flag, the books and the loop index of the
  \* run, its position, the positions whose request is in flight, the calls
  \* and the runs so far and the requests the runs have sent
  isPreGeneratingDescriptions, pregenBooks, pregenIndex, pregenPc,
  pregenRequests, pregenCalls, pregenRuns, pregenSent,
  \* the for-of loop of enhanceBookData, step by step: its position, the
  \* work it is at, processedTitles, the detail requests whose fetch and
  \* whose body is pending, the abort timers that are set and the works in
  \* the order their requests were sent
  loopPc, loopIndex, processedTitles, detailRequests, detailBodies,
  abortTimers, loopIssued

managerVars ==
  <<allBooks, filteredBooks, currentFilters, dropdowns, debounceTimer,
    filterTimers, display, fetching, callbackRuns>>
mergeVars == <<works, searchBooks, details, enhancedBooks, stage>>
fuzzyVars == <<fuzzyQuery, fuzzyText, fuzzyResult>>
fetchVars ==
  <<responseOwnsOk, apiCache, clock, requests, fetchPc, fetchResult, invocations>>
textVars ==
  <<descBook, descOutcome, descPc, descResult, genreSubject, genreResult>>
debounceVars == <<timeout, timers, calls, funcCalls, elapsed>>
modalVars ==
  <<modalOpen, modalBook, modalDescription, modalRequests, modalShows,
    descriptionCache>>
carouselVars ==
  <<carouselPc, autoScrollInterval, intervals, intervalsSet, resumeTimers,
    isUserInteracting, pointerInside, currentPosition, autoScrollDirection>>
pregenVars ==
  <<isPreGeneratingDescriptions, pregenBooks, pregenIndex, pregenPc,
    pregenRequests, pregenCalls, pregenRuns, pregenSent>>
loopVars ==
  <<loopPc, loopIndex, processedTitles, detailRequests, detailBodies,
    abortTimers, loopIssued>>
widgetVars == <<debounceVars, modalVars, carouselVars, pregenVars, loopVars>>
vars == <<managerVars, mergeVars, fuzzyVars, fetchVars, textVars, widgetVars>>

\* all sequences over S of length at most n
SeqsUpTo(S, n) == UNION {[1..k -> S] : k \in 0..n}

(***************************************************************************)
(* The records of the bounded inputs.                                      *)
(***************************************************************************)
Hit(title, year, language, subject) ==
  [BlankRecord EXCEPT !.title = title, !.first_publish_year = year,
                      !.language = language, !.subject = subject]

Work(title, key, date) ==
  [BlankRecord EXCEPT !.title = title, !.key = key, !.first_publish_date = date]

\* search hits: a title in three spellings, a title with an excluded phrase,
\* a short title in two spellings, a second title of the year 1997, a hit
\* without a year and a hit without a title
hitInk == Hit(Str(<<"I", "n", "k">>), Num(1997), Arr(<<<<"e", "n", "g">>>>), Arr(<<<<"F", "a", "n", "t", "a", "s", "y", " ", "f", "i", "c", "t", "i", "o", "n">>>>))
hitINK == Hit(Str(<<"I", "N", "K">>), Num(2012), Arr(<<<<"f", "r", "e">>>>), Undefined)
hitInkSpace == Hit(Str(<<"i", "n", "k", " ">>), Num(2012), Undefined, Arr(<<<<"M", "a", "g", "i", "c">>>>))
hitOmnibus == Hit(Str(<<"I", "n", "k", " ", "O", "m", "n", "i", "b", "u", "s">>), Num(2012), Arr(<<<<"e", "n", "g">>>>), Undefined)
hitIt == Hit(Str(<<"I", "t">>), Num(1997), Arr(<<<<"e", "n", "g">>>>), Undefined)
hitIT == Hit(Str(<<"I", "T">>), Num(2012), Undefined, Undefined)
hitAnt == Hit(Str(<<"A", "n", "t">>), Num(1997), Arr(<<<<"e", "n", "g">>, <<"f", "r", "e">>>>), Undefined)
hitNoYear == Hit(Str(<<"O", "w", "l">>), Undefined, Arr(<<<<"e", "n", "g">>>>), Undefined)
hitNoTitle == Hit(Undefined, Num(2012), Undefined, Undefined)

\* works: first_publish_date is free text
workInk == Work(Str(<<"I", "n", "k">>), Str(<<"/", "w", "o", "r", "k", "s", "/", "O", "L", "1", "W">>), Str(<<"J", "u", "n", "e", " ", "2", "6", ",", " ", "1", "9", "9", "7">>))
workOwl == Work(Str(<<"O", "w", "l">>), Undefined, Str(<<"1", "9", "9", "7">>))
workInkSpace == Work(Str(<<"I", "n", "k", " ">>), Undefined, Str(<<"2", "0", "1", "2">>))

\* the work and the search hit of the example of the specification
workCasual == Work(Str(<<"C", "a", "s", "u", "a", "l", " ", "V", "a", "c", "a", "n", "c", "y">>), Undefined, Str(<<"2", "0", "1", "2">>))
hitCasual == Hit(Str(<<"C", "a", "s", "u", "a", "l", " ", "V", "a", "c", "a", "n", "c", "y">>), Num(2012), Arr(<<<<"e", "n", "g">>>>), Arr(<<<<"F", "i", "c", "t", "i", "o", "n">>>>))

\* a hit whose language code carries a leading blank
hitPadded == Hit(Str(<<"E", "l", "m">>), Num(2003), Arr(<<<<" ", "e", "n", "g">>>>), Undefined)

\* a search hit that carries a publication date and a subtitle of its own
hitInkDated ==
  [hitInk EXCEPT !.first_publish_date = Str(<<"1", "9", "9", "7">>), !.subtitle = Str(<<"S", "t", "o", "r", "i", "e", "s">>)]

\* a second work with a key, so that two detail requests are made
workAnt == Work(Str(<<"A", "n", "t">>), Str(<<"/", "w", "o", "r", "k", "s", "/", "O", "L", "2", "W">>), Str(<<"1", "9", "9", "7">>))

\* the work detail the detail endpoint holds for a work
detailOf(work) ==
  [BlankRecord EXCEPT !.subjects = Arr(<<<<"M", "y", "s", "t", "e", "r", "y">>>>),
                      !.description = Obj(<<"A", " ", "t", "a", "l", "e", ".">>),
                      !.subtitle = Str(<<"A", " ", "n", "o", "v", "e", "l">>)]

(***************************************************************************)
(* BooksPageManager: constructor state and handlers.                       *)
(***************************************************************************)
NoFilters == [search |-> <<>>, language |-> <<>>, year |-> <<>>, genre |-> <<>>]
NothingShown == [loading |-> FALSE, error |-> FALSE, booksContainer |-> FALSE]

ManagerInit ==
  /\ allBooks = <<>>
  /\ filteredBooks = <<>>
  /\ currentFilters = NoFilters
  /\ dropdowns = [language |-> {}, year |-> {}, genre |-> {}]
  /\ debounceTimer = FALSE
  /\ filterTimers = 0
  /\ display = NothingShown
  /\ fetching = FALSE
  /\ callbackRuns = 0

\* the handlers of the page leave the other components' state alone
ManagerOnly == UNCHANGED <<mergeVars, fuzzyVars, fetchVars, textVars, widgetVars>>

\* applyFilters(): marks the container and schedules the timeout callback
CanApplyFilters == filterTimers < MaxTimers
applyFilters == filterTimers' = filterTimers + 1

\* debouncedFilter(): clearTimeout, then setTimeout(later, 100)
debouncedFilter == debounceTimer' = TRUE

\* populateFilterDropdowns
populateFilterDropdowns(books) ==
  dropdowns' = [language |-> languageOptions(books),
                year |-> yearOptions(books),
                genre |-> genreOptions(books)]

\* displayBooks(books), with the possible results of the sort
displayBooks(books) ==
  /\ CanApplyFilters
  /\ \E sorted \in filterBooks(books) :
       /\ allBooks' = sorted
       /\ filteredBooks' = sorted
       /\ populateFilterDropdowns(sorted)
  /\ applyFilters

\* fetchBooks up to its await: showLoading.  init() calls it once; after
\* that the retry button, which the error element shows, calls it again.
FetchBooks ==
  /\ ~fetching
  /\ display = NothingShown \/ display.error
  /\ fetching' = TRUE
  /\ display' = [loading |-> TRUE, error |-> FALSE, booksContainer |-> FALSE]
  /\ callbackRuns' = 0
  /\ UNCHANGED <<allBooks, filteredBooks, currentFilters, dropdowns,
                 debounceTimer, filterTimers>>
  /\ ManagerOnly

\* fetchBooks after fetchDetailedJKRowlingBooks resolved with data.books:
\* displayBooks, showBooks
FetchBooksResolved(books) ==
  /\ fetching
  /\ fetching' = FALSE
  /\ displayBooks(books)
  /\ display' = [display EXCEPT !.loading = FALSE, !.booksContainer = TRUE]
  /\ callbackRuns' = 0
  /\ UNCHANGED <<currentFilters, debounceTimer>>
  /\ ManagerOnly

\* fetchBooks after fetchDetailedJKRowlingBooks rejected: showError
FetchBooksRejected ==
  /\ fetching
  /\ fetching' = FALSE
  /\ display' = [loading |-> FALSE, error |-> TRUE, booksContainer |-> FALSE]
  /\ callbackRuns' = 0
  /\ UNCHANGED <<allBooks, filteredBooks, currentFilters, dropdowns,
                 debounceTimer, filterTimers>>
  /\ ManagerOnly

\* variant: the handler sets the filter and schedules nothing
SetFilterUnscheduled(field, value) ==
  /\ currentFilters' = [currentFilters EXCEPT ![field] = value]
  /\ callbackRuns' = 0
  /\ UNCHANGED <<allBooks, filteredBooks, dropdowns, debounceTimer, filterTimers,
                 display, fetching>>
  /\ ManagerOnly

\* a handler that sets one filter and calls debouncedFilter
SetFilter(field, value) ==
  /\ currentFilters' = [currentFilters EXCEPT ![field] = value]
  /\ debouncedFilter
  /\ callbackRuns' = 0
  /\ UNCHANGED <<allBooks, filteredBooks, dropdowns, filterTimers, display,
                 fetching>>
  /\ ManagerOnly

\* what the user types in the search box
SearchTexts == {<<>>, <<" ">>, <<"i", "n", "k">>, <<"1", "9", "9", "7">>, <<"s", "t", "o">>}

SearchInput == \E value \in SearchTexts : SetFilter("search", value)
EscapeKey == SetFilter("search", <<>>)
ClearSearch == SetFilter("search", <<>>)

\* a dropdown offers the empty value and the options populated from allBooks
LanguageChange ==
  \E value \in dropdowns.language \cup {<<>>} : SetFilter("language", value)
YearChange ==
  \E value \in dropdowns.year \cup {<<>>} : SetFilter("year", value)
GenreChange ==
  \E value \in dropdowns.genre \cup {<<>>} : SetFilter("genre", value)

clearAllFilters ==
  /\ CanApplyFilters
  /\ currentFilters' = NoFilters
  /\ applyFilters
  /\ callbackRuns' = 0
  /\ UNCHANGED <<allBooks, filteredBooks, dropdowns, debounceTimer, display,
                 fetching>>
  /\ ManagerOnly

\* the timeout of debouncedFilter fires: later() calls applyFilters()
DebounceFires ==
  /\ debounceTimer
  /\ CanApplyFilters
  /\ debounceTimer' = FALSE
  /\ applyFilters
  /\ callbackRuns' = 0
  /\ UNCHANGED <<allBooks, filteredBooks, currentFilters, dropdowns, display,
                 fetching>>
  /\ ManagerOnly

\* variant: the callback filters allBooks in place
ApplyFiltersCallbackInPlace ==
  /\ filterTimers > 0
  /\ filterTimers' = filterTimers - 1
  /\ filteredBooks' = applyFiltersResult(allBooks, currentFilters)
  /\ allBooks' = filteredBooks'
  /\ callbackRuns' = callbackRuns + 1
  /\ UNCHANGED <<currentFilters, dropdowns, debounceTimer, display, fetching>>
  /\ ManagerOnly

\* variant: a callback that follows another adds its result to the list
ApplyFiltersCallbackAccumulating ==
  /\ filterTimers > 0
  /\ filterTimers' = filterTimers - 1
  /\ filteredBooks' =
       IF callbackRuns > 0
         THEN filteredBooks \o applyFiltersResult(allBooks, currentFilters)
         ELSE applyFiltersResult(allBooks, currentFilters)
  /\ callbackRuns' = callbackRuns + 1
  /\ UNCHANGED <<allBooks, currentFilters, dropdowns, debounceTimer, display,
                 fetching>>
  /\ ManagerOnly

\* the timeout callback of applyFilters
ApplyFiltersCallback ==
  /\ filterTimers > 0
  /\ filterTimers' = filterTimers - 1
  /\ filteredBooks' = applyFiltersResult(allBooks, currentFilters)
  /\ callbackRuns' = callbackRuns + 1
  /\ UNCHANGED <<allBooks, currentFilters, dropdowns, debounceTimer, display,
                 fetching>>
  /\ ManagerOnly

\* the records of the book lists fetchDetailedJKRowlingBooks hands to the page
CatalogBooks == {hitInk, hitINK, hitAnt, hitOmnibus}

(***************************************************************************)
(* The page: fetchBooks, the filter controls and the two timers.  The      *)
(* outcome of fetchDetailedJKRowlingBooks is a book list or a rejection.   *)
(***************************************************************************)
MergeIdle ==
  /\ works = <<>>
  /\ searchBooks = <<>>
  /\ details = <<>>
  /\ enhancedBooks = <<>>
  /\ stage = "idle"

FuzzyIdle ==
  /\ fuzzyQuery = <<>>
  /\ fuzzyText = <<>>
  /\ fuzzyResult = "none"

\* the two urls of fetchDetailedJKRowlingBooks and its three cachedFetch calls
Urls == {"works", "search"}
Calls == {"works", "search", "fallback"}
Url(c) == IF c = "works" THEN "works" ELSE "search"

\* a Response: its ok flag, whether its body parses as JSON and the list
\* (entries or docs) of the parsed body, if it has one
NoResponse == [ok |-> FALSE, parsable |-> FALSE, hasList |-> FALSE, list |-> <<>>]
\* the object cachedFetch returns, { ...response, json }.  ok is "undefined"
\* when the spread does not copy it; httpOk remembers the ok flag of the
\* response the object was made from, which the code cannot read
NoData == [ok |-> "undefined", httpOk |-> FALSE, hasList |-> FALSE, list |-> <<>>]
NoEntry == [present |-> FALSE, data |-> NoData, timestamp |-> 0]
NoRequest == [st |-> "none", response |-> NoResponse, data |-> NoData]
NoResult == [st |-> "none", books |-> <<>>, total |-> 0, path |-> "none"]

FetchStart ==
  /\ apiCache = [u \in Urls |-> NoEntry]
  /\ clock = 0
  /\ requests = [c \in Calls |-> NoRequest]
  /\ fetchPc = "idle"
  /\ fetchResult = NoResult
  /\ invocations = 0

FetchIdle == responseOwnsOk = FALSE /\ FetchStart

\* the answer of the dataset request: the fetch rejects (answered FALSE) or
\* resolves with a response whose body may parse and may hold rows
NoOutcome ==
  [answered |-> FALSE, ok |-> FALSE, parsable |-> FALSE, hasRows |-> FALSE,
   rows |-> <<>>]
NoDescription == [st |-> "none", text |-> <<>>, path |-> "none"]
NoGenre == [st |-> "none", value |-> <<>>]

TextIdle ==
  /\ descBook = BlankRecord
  /\ descOutcome = NoOutcome
  /\ descPc = "idle"
  /\ descResult = NoDescription
  /\ genreSubject = <<>>
  /\ genreResult = NoGenre

\* no timer of a debounced function was set yet
NoTimer == [id |-> 0, due |-> 0, args |-> "none"]

DebounceIdle ==
  /\ timeout = NoTimer
  /\ timers = {}
  /\ calls = <<>>
  /\ funcCalls = <<>>
  /\ elapsed = 0

\* the description element before populateDescription wrote to it, and while
\* it shows the spinner
EmptyElement == [kind |-> "empty", about |-> <<>>]
Spinner == [kind |-> "loading", about |-> <<>>]
\* new Map()
EmptyMap == [k \in {} |-> EmptyElement]

ModalClosed ==
  /\ modalOpen = FALSE
  /\ modalBook = BlankRecord
  /\ modalDescription = EmptyElement
  /\ modalRequests = {}
  /\ modalShows = 0

ModalIdle == ModalClosed /\ descriptionCache = EmptyMap

\* the carousel after its constructor; autoScrollInterval 0 stands for null
CarouselConstructed ==
  /\ carouselPc = "constructed"
  /\ autoScrollInterval = 0
  /\ intervals = {}
  /\ intervalsSet = 0
  /\ resumeTimers = 0
  /\ isUserInteracting = FALSE
  /\ currentPosition = 0
  /\ autoScrollDirection = 1

CarouselIdle == CarouselConstructed /\ pointerInside = FALSE

PregenIdle ==
  /\ isPreGeneratingDescriptions = FALSE
  /\ pregenBooks = <<>>
  /\ pregenIndex = 0
  /\ pregenPc = "idle"
  /\ pregenRequests = {}
  /\ pregenCalls = 0
  /\ pregenRuns = 0
  /\ pregenSent = {}

LoopIdle ==
  /\ loopPc = "idle"
  /\ loopIndex = 0
  /\ processedTitles = {}
  /\ detailRequests = {}
  /\ detailBodies = {}
  /\ abortTimers = {}
  /\ loopIssued = <<>>

WidgetIdle ==
  DebounceIdle /\ ModalIdle /\ CarouselIdle /\ PregenIdle /\ LoopIdle

Init ==
  ManagerInit /\ MergeIdle /\ FuzzyIdle /\ FetchIdle /\ TextIdle /\ WidgetIdle

Next ==
  \/ FetchBooks
  \/ \E books \in SeqsUpTo(CatalogBooks, MaxBooks) \cup {<<hitAnt, hitInkDated>>, <<hitPadded>>} :
       FetchBooksResolved(books)
  \/ FetchBooksRejected
  \/ SearchInput
  \/ EscapeKey
  \/ ClearSearch
  \/ LanguageChange
  \/ YearChange
  \/ GenreChange
  \/ clearAllFilters
  \/ DebounceFires
  \/ ApplyFiltersCallback

Spec == Init /\ [][Next]_vars

(***************************************************************************)
(* The catalog pipeline as a function of the upstream data: the merge      *)
(* (enhanceBookData) of bounded works and search hits, then the ingest     *)
(* (displayBooks) of the merge output or, on the search-only path, of the  *)
(* raw search hits.                                                        *)
(***************************************************************************)
\* longest list of works and of search hits
MaxWorks == 1
MaxHits == 2

WorkPool == {workInk, workOwl, workInkSpace}
HitPool ==
  {hitInk, hitINK, hitInkSpace, hitOmnibus, hitIt, hitIT, hitAnt, hitNoYear,
   hitNoTitle}

\* the outcomes of the detail requests: a work without key has no request;
\* a response that is not ok, a network error and the abort of the 5 second
\* timer all leave detailedWork null, the blank record
DetailChoices(ws) ==
  {d \in [1..Len(ws) -> {BlankRecord} \cup {detailOf(ws[i]) : i \in 1..Len(ws)}] :
     \A i \in 1..Len(ws) : ~Truthy(ws[i].key) => d[i] = BlankRecord}

CatalogInit ==
  /\ ManagerInit /\ FuzzyIdle /\ FetchIdle /\ TextIdle /\ WidgetIdle
  /\ works \in SeqsUpTo(WorkPool, MaxWorks) \cup {<<workCasual>>, <<workInk, workAnt>>}
  /\ searchBooks \in SeqsUpTo(HitPool, MaxHits) \cup {<<hitCasual>>, <<hitInkDated>>}
  /\ details = <<>>
  /\ enhancedBooks = <<>>
  /\ stage = "start"

Enhance ==
  /\ stage = "start"
  /\ ~enhanceBookDataThrows(works, searchBooks)
  /\ \E d \in DetailChoices(works) :
       /\ details' = d
       /\ enhancedBooks' = enhanceBookData(works, searchBooks, d)
  /\ stage' = "merged"
  /\ UNCHANGED <<works, searchBooks, managerVars, fuzzyVars, fetchVars, textVars,
                 widgetVars>>

Ingest(books, nextStage) ==
  /\ displayBooks(books)
  /\ stage' = nextStage
  /\ callbackRuns' = 0
  /\ UNCHANGED <<currentFilters, debounceTimer, display, fetching>>
  /\ UNCHANGED <<works, searchBooks, details, enhancedBooks, fuzzyVars, fetchVars,
                 textVars, widgetVars>>

IngestMerged == stage = "merged" /\ Ingest(enhancedBooks, "ingestedMerged")
IngestSearchOnly == stage = "start" /\ Ingest(searchBooks, "ingestedSearch")

\* the list the last ingest was given
Ingested == stage \in {"ingestedMerged", "ingestedSearch"}
IngestInput == IF stage = "ingestedMerged" THEN enhancedBooks ELSE searchBooks

CatalogNext == Enhance \/ IngestMerged \/ IngestSearchOnly

SpecCatalog == CatalogInit /\ [][CatalogNext]_vars

(***************************************************************************)
(* fuzzySearch on bounded queries and texts.                               *)
(***************************************************************************)
MaxQueryLen == 4
MaxTextLen == 4
QueryChars == {"a", "b", "A"}
TextChars == {"a", "b", "B"}

FuzzyInit ==
  /\ ManagerInit /\ MergeIdle /\ FetchIdle /\ TextIdle /\ WidgetIdle
  /\ fuzzyQuery \in SeqsUpTo(QueryChars, MaxQueryLen)
  /\ fuzzyText \in SeqsUpTo(TextChars, MaxTextLen)
  /\ fuzzyResult = "none"

FuzzySearchCall ==
  /\ fuzzyResult = "none"
  /\ fuzzyResult' = IF fuzzySearch(fuzzyQuery, fuzzyText) THEN "true" ELSE "false"
  /\ UNCHANGED <<fuzzyQuery, fuzzyText, managerVars, mergeVars, fetchVars, textVars,
                 widgetVars>>

FuzzyNext == FuzzySearchCall

SpecFuzzy == FuzzyInit /\ [][FuzzyNext]_vars

(***************************************************************************)
(* apiService: cachedFetch and fetchDetailedJKRowlingBooks.  The network   *)
(* answers each request with a rejection or with a Response.  A fetch      *)
(* implementation either keeps ok as an own property of the Response or    *)
(* as an accessor of its prototype, which { ...response } does not copy.   *)
(***************************************************************************)
CACHE_DURATION == 5 * 60 * 1000

\* time passes in steps of half the cache duration
TickLength == CACHE_DURATION \div 2
MaxTicks == 2
\* calls of fetchDetailedJKRowlingBooks
MaxInvocations == 2

\* a search hit whose title is not a string: title.toLowerCase throws
hitBadTitle == Hit(Num(7), Num(1997), Undefined, Undefined)

WorksLists == {<<>>, <<workInk>>}
DocsLists == {<<>>, <<hitInk>>, <<hitBadTitle>>}

Responses(url) ==
  {[ok |-> TRUE, parsable |-> TRUE, hasList |-> TRUE, list |-> l] :
     l \in IF url = "works" THEN WorksLists ELSE DocsLists}
  \cup {[ok |-> o, parsable |-> p, hasList |-> FALSE, list |-> <<>>] :
          o \in BOOLEAN, p \in BOOLEAN}

\* { ...response, json: () => Promise.resolve(data) }
Wrapped(response) ==
  [ok |-> IF responseOwnsOk
            THEN (IF response.ok THEN "true" ELSE "false")
            ELSE "undefined",
   httpOk |-> response.ok,
   hasList |-> response.hasList,
   list |-> response.list]

\* variant: an entry of exactly the cache duration still counts as fresh
cachedFetchCallInclusive(c) ==
  LET cached == apiCache[Url(c)]
  IN  IF cached.present /\ clock - cached.timestamp <= CACHE_DURATION
        THEN [st |-> "resolved", response |-> NoResponse, data |-> cached.data]
        ELSE [st |-> "fetching", response |-> NoResponse, data |-> NoData]

\* cachedFetch up to its first await: a fresh cache entry is returned,
\* otherwise the request is sent
cachedFetchCall(c) ==
  LET cached == apiCache[Url(c)]
  IN  IF cached.present /\ clock - cached.timestamp < CACHE_DURATION
        THEN [st |-> "resolved", response |-> NoResponse, data |-> cached.data]
        ELSE [st |-> "fetching", response |-> NoResponse, data |-> NoData]

InFlight(c) == requests[c].st \in {"fetching", "parsing"}

FetchFrame == UNCHANGED <<managerVars, fuzzyVars, textVars, widgetVars, responseOwnsOk, stage>>

\* fetchDetailedJKRowlingBooks is called: both cachedFetch calls are made
\* before Promise.all is awaited.  A call starts when the cachedFetch calls
\* of the call before have settled.
StartFetch ==
  /\ fetchPc \in {"idle", "resolved", "rejected"}
  /\ invocations < MaxInvocations
  /\ \A c \in Calls : ~InFlight(c)
  /\ invocations' = invocations + 1
  /\ requests' = [c \in Calls |->
                    IF c = "fallback" THEN NoRequest ELSE cachedFetchCall(c)]
  /\ fetchPc' = "awaitAll"
  /\ fetchResult' = NoResult
  /\ UNCHANGED <<apiCache, clock, mergeVars>>
  /\ FetchFrame

\* await fetch(url, options) rejects: cachedFetch rejects
FetchRejects(c) ==
  /\ requests[c].st = "fetching"
  /\ requests' = [requests EXCEPT ![c].st = "rejected"]
  /\ UNCHANGED <<apiCache, clock, fetchPc, fetchResult, invocations, mergeVars>>
  /\ FetchFrame

\* await fetch(url, options) resolves with a Response
FetchResolves(c) ==
  /\ requests[c].st = "fetching"
  /\ \E response \in Responses(Url(c)) :
       requests' = [requests EXCEPT ![c].st = "parsing", ![c].response = response]
  /\ UNCHANGED <<apiCache, clock, fetchPc, fetchResult, invocations, mergeVars>>
  /\ FetchFrame

\* await response.json() rejects: cachedFetch rejects
JsonRejects(c) ==
  /\ requests[c].st = "parsing"
  /\ ~requests[c].response.parsable
  /\ requests' = [requests EXCEPT ![c].st = "rejected"]
  /\ UNCHANGED <<apiCache, clock, fetchPc, fetchResult, invocations, mergeVars>>
  /\ FetchFrame

\* variant: only a response with ok set is cached
JsonResolvesOkOnly(c) ==
  /\ requests[c].st = "parsing"
  /\ requests[c].response.parsable
  /\ apiCache' = IF requests[c].response.ok
                   THEN [apiCache EXCEPT ![Url(c)] =
                           [present |-> TRUE,
                            data |-> Wrapped(requests[c].response),
                            timestamp |-> clock]]
                   ELSE apiCache
  /\ requests' = [requests EXCEPT ![c].st = "resolved",
                                  ![c].data = Wrapped(requests[c].response)]
  /\ UNCHANGED <<clock, fetchPc, fetchResult, invocations, mergeVars>>
  /\ FetchFrame

\* variant: an entry that is already cached is not written again
JsonResolvesKeepFirst(c) ==
  /\ requests[c].st = "parsing"
  /\ requests[c].response.parsable
  /\ apiCache' = IF apiCache[Url(c)].present
                   THEN apiCache
                   ELSE [apiCache EXCEPT ![Url(c)] =
                           [present |-> TRUE,
                            data |-> Wrapped(requests[c].response),
                            timestamp |-> clock]]
  /\ requests' = [requests EXCEPT ![c].st = "resolved",
                                  ![c].data = Wrapped(requests[c].response)]
  /\ UNCHANGED <<clock, fetchPc, fetchResult, invocations, mergeVars>>
  /\ FetchFrame

\* await response.json() resolves: the entry is cached and returned
JsonResolves(c) ==
  /\ requests[c].st = "parsing"
  /\ requests[c].response.parsable
  /\ apiCache' = [apiCache EXCEPT ![Url(c)] =
                    [present |-> TRUE,
                     data |-> Wrapped(requests[c].response),
                     timestamp |-> clock]]
  /\ requests' = [requests EXCEPT ![c].st = "resolved",
                                  ![c].data = Wrapped(requests[c].response)]
  /\ UNCHANGED <<clock, fetchPc, fetchResult, invocations, mergeVars>>
  /\ FetchFrame

\* the catch block of fetchDetailedJKRowlingBooks: the search is fetched again
StartFallback ==
  /\ requests' = [requests EXCEPT !["fallback"] = cachedFetchCall("fallback")]
  /\ fetchPc' = "fallback"
  /\ UNCHANGED <<apiCache, clock, fetchResult, invocations, mergeVars>>
  /\ FetchFrame

\* Promise.all rejects as soon as one of its promises rejects
PromiseAllRejects ==
  /\ fetchPc = "awaitAll"
  /\ \E c \in Urls : requests[c].st = "rejected"
  /\ StartFallback

\* !worksResponse.ok || !searchResponse.ok
OkCheckFails ==
  /\ fetchPc = "awaitAll"
  /\ \A c \in Urls : requests[c].st = "resolved"
  /\ \E c \in Urls : requests[c].data.ok # "true"
  /\ StartFallback

\* both responses are ok: enhanceBookData(worksData.entries, searchData.docs)
OkCheckPasses ==
  /\ fetchPc = "awaitAll"
  /\ \A c \in Urls : requests[c].st = "resolved"
  /\ \A c \in Urls : requests[c].data.ok = "true"
  /\ works' = requests["works"].data.list
  /\ searchBooks' = requests["search"].data.list
  /\ details' = <<>>
  /\ enhancedBooks' = <<>>
  /\ fetchPc' = "merging"
  /\ UNCHANGED <<apiCache, clock, requests, fetchResult, invocations>>
  /\ FetchFrame

\* enhanceBookData resolves
MergeResolves ==
  /\ fetchPc = "merging"
  /\ ~enhanceBookDataThrows(works, searchBooks)
  /\ \E d \in DetailChoices(works) :
       /\ details' = d
       /\ enhancedBooks' = enhanceBookData(works, searchBooks, d)
  /\ fetchResult' = [st |-> "resolved", books |-> enhancedBooks',
                     total |-> Len(enhancedBooks'), path |-> "merge"]
  /\ fetchPc' = "resolved"
  /\ UNCHANGED <<apiCache, clock, requests, invocations, works, searchBooks>>
  /\ FetchFrame

\* enhanceBookData rejects: enhancedBooks = searchData.docs || []
MergeThrows ==
  /\ fetchPc = "merging"
  /\ enhanceBookDataThrows(works, searchBooks)
  /\ fetchResult' = [st |-> "resolved", books |-> searchBooks,
                     total |-> Len(searchBooks), path |-> "mergeFallback"]
  /\ fetchPc' = "resolved"
  /\ UNCHANGED <<apiCache, clock, requests, invocations, mergeVars>>
  /\ FetchFrame

\* the fallback resolves: { books: docs || [], total: docs?.length || 0 }
FallbackResolves ==
  /\ fetchPc = "fallback"
  /\ requests["fallback"].st = "resolved"
  /\ fetchResult' = [st |-> "resolved", books |-> requests["fallback"].data.list,
                     total |-> Len(requests["fallback"].data.list),
                     path |-> "fallback"]
  /\ fetchPc' = "resolved"
  /\ UNCHANGED <<apiCache, clock, requests, invocations, mergeVars>>
  /\ FetchFrame

\* the fallback rejects: throw fallbackError
FallbackRejects ==
  /\ fetchPc = "fallback"
  /\ requests["fallback"].st = "rejected"
  /\ fetchResult' = [NoResult EXCEPT !.st = "rejected", !.path = "fallback"]
  /\ fetchPc' = "rejected"
  /\ UNCHANGED <<apiCache, clock, requests, invocations, mergeVars>>
  /\ FetchFrame

\* Date.now() advances
Tick ==
  /\ clock < MaxTicks * TickLength
  /\ clock' = clock + TickLength
  /\ UNCHANGED <<apiCache, requests, fetchPc, fetchResult, invocations, mergeVars>>
  /\ FetchFrame

FetchInit ==
  /\ ManagerInit /\ MergeIdle /\ FuzzyIdle /\ FetchStart /\ TextIdle /\ WidgetIdle
  /\ responseOwnsOk \in BOOLEAN

FetchNext ==
  \/ StartFetch
  \/ \E c \in Calls : FetchRejects(c)
  \/ \E c \in Calls : FetchResolves(c)
  \/ \E c \in Calls : JsonRejects(c)
  \/ \E c \in Calls : JsonResolves(c)
  \/ PromiseAllRejects
  \/ OkCheckFails
  \/ OkCheckPasses
  \/ MergeResolves
  \/ MergeThrows
  \/ FallbackResolves
  \/ FallbackRejects
  \/ Tick

SpecFetch == FetchInit /\ [][FetchNext]_vars

(***************************************************************************)
(* The page on top of apiService: fetchBooks calls                         *)
(* fetchDetailedJKRowlingBooks, whose requests the network answers, and    *)
(* shows the books or the error element when the call settles.             *)
(***************************************************************************)
\* filterBooks throws on a record with a year whose title is truthy and not
\* a string: title.toLowerCase is not a function
filterBooksThrows(books) ==
  \E i \in 1..Len(books) :
    hasTitleAndYear(books[i]) /\ books[i].title.kind # "string"

\* fetchBooks up to its await, called by init() and by the retry button:
\* showLoading, then the two cachedFetch calls of fetchDetailedJKRowlingBooks
PageFetchBooks ==
  /\ ~fetching
  /\ display = NothingShown \/ display.error
  /\ invocations < MaxInvocations
  /\ \A c \in Calls : ~InFlight(c)
  /\ fetching' = TRUE
  /\ display' = [loading |-> TRUE, error |-> FALSE, booksContainer |-> FALSE]
  /\ callbackRuns' = 0
  /\ invocations' = invocations + 1
  /\ requests' = [c \in Calls |->
                    IF c = "fallback" THEN NoRequest ELSE cachedFetchCall(c)]
  /\ fetchPc' = "awaitAll"
  /\ fetchResult' = NoResult
  /\ UNCHANGED <<allBooks, filteredBooks, currentFilters, dropdowns,
                 debounceTimer, filterTimers>>
  /\ UNCHANGED <<apiCache, clock, responseOwnsOk, mergeVars, fuzzyVars, textVars,
                 widgetVars>>

\* the call resolved: displayBooks(data.books), showBooks
PageBooksShown ==
  /\ fetchPc = "resolved"
  /\ ~filterBooksThrows(fetchResult.books)
  /\ FetchBooksResolved(fetchResult.books)

\* the call rejected or displayBooks threw: the catch block, showError
PageErrorShown ==
  /\ \/ fetchPc = "rejected"
     \/ fetchPc = "resolved" /\ filterBooksThrows(fetchResult.books)
  /\ FetchBooksRejected

PageNext ==
  \/ PageFetchBooks
  \/ \E c \in Calls : FetchRejects(c)
  \/ \E c \in Calls : FetchResolves(c)
  \/ \E c \in Calls : JsonRejects(c)
  \/ \E c \in Calls : JsonResolves(c)
  \/ PromiseAllRejects
  \/ OkCheckFails
  \/ OkCheckPasses
  \/ MergeResolves
  \/ MergeThrows
  \/ FallbackResolves
  \/ FallbackRejects
  \/ PageBooksShown
  \/ PageErrorShown
  \/ ApplyFiltersCallback
  \/ Tick

SpecPage == FetchInit /\ [][PageNext]_vars

(***************************************************************************)
(* apiService: generateBookDescription, fetchFromGoodreadsDataset and      *)
(* getFallbackDescription.  A null result of fetchFromGoodreadsDataset is  *)
(* modelled by the empty string: its caller tests it for truthiness.       *)
(***************************************************************************)
\* description.split(/[.!?]+/): the pieces between runs of . ! ?, with an
\* empty piece before a leading run and after a trailing run
SplitSentences(s) ==
  LET isMark(i) == s[i] \in {".", "!", "?"}
      starts == {i \in 1..Len(s) : ~isMark(i) /\ (i = 1 \/ isMark(i - 1))}
      start(k) == CHOOSE i \in starts : Cardinality({j \in starts : j <= i}) = k
      end(i) == CHOOSE j \in i..Len(s) :
                  /\ \A m \in i..j : ~isMark(m)
                  /\ (j = Len(s) \/ isMark(j + 1))
      runs == [k \in 1..Cardinality(starts) |-> SubSeq(s, start(k), end(start(k)))]
  IN  IF s = <<>> THEN << <<>> >>
      ELSE (IF isMark(1) THEN << <<>> >> ELSE <<>>) \o runs
             \o (IF isMark(Len(s)) THEN << <<>> >> ELSE <<>>)

\* the description of a matching row, cut to its first two sentences when
\* it has more than two, and dropped when it is not longer than 50
trimmedDescription(text) ==
  LET description == Trim(text)
      longEnough(s) == Len(Trim(s)) > 10
      sentences == SelectSeq(SplitSentences(description), longEnough)
      cut == IF Len(sentences) > 2
               THEN Join(SubSeq(sentences, 1, 2), <<".", " ">>) \o <<".">>
               ELSE description
  IN  IF Len(cut) > 50 THEN cut ELSE <<>>

\* the callback of data.rows.find
rowMatches(book, row) ==
  LET dataTitle == ToLowerCase(row.title)
      dataAuthor == ToLowerCase(row.authors)
      bookTitle == ToLowerCase(book.title.str)
  IN  /\ \/ Includes(dataTitle, SubSeq(bookTitle, 1, Min({10, Len(bookTitle)})))
         \/ Includes(bookTitle, SubSeq(dataTitle, 1, Min({10, Len(dataTitle)})))
      /\ Includes(dataAuthor, <<"r", "o", "w", "l", "i", "n", "g">>)

\* the callback throws a TypeError on a row without row.row, and on every
\* row when book.title is not a string
rowThrows(book, row) == ~row.wellFormed \/ book.title.kind # "string"

\* the index of the row find returns, 0 when it returns undefined
firstMatch(book, rows) ==
  IF \E i \in 1..Len(rows) : rowMatches(book, rows[i])
    THEN Min({i \in 1..Len(rows) : rowMatches(book, rows[i])})
    ELSE 0

\* find throws when it reaches a row on which the callback throws
findThrows(book, rows) ==
  \E i \in 1..Len(rows) :
    /\ rowThrows(book, rows[i])
    /\ \A j \in 1..(i - 1) : ~rowThrows(book, rows[j]) /\ ~rowMatches(book, rows[j])

\* the try block of fetchFromGoodreadsDataset throws: the request fails,
\* the response is not ok, the body does not parse or find throws
datasetThrows(book, outcome) ==
  \/ ~outcome.answered
  \/ ~outcome.ok
  \/ ~outcome.parsable
  \/ outcome.hasRows /\ findThrows(book, outcome.rows)

fetchFromGoodreadsDataset(book, outcome) ==
  IF datasetThrows(book, outcome) \/ ~outcome.hasRows
       \/ firstMatch(book, outcome.rows) = 0
    THEN <<>>
    ELSE trimmedDescription(outcome.rows[firstMatch(book, outcome.rows)].description)

\* the sentences of getFallbackDescription
fallbackSentences ==
  [philosopher |-> <<"T", "h", "e", " ", "m", "a", "g", "i", "c", "a", "l", " ", "j", "o", "u", "r", "n", "e", "y", " ", "b", "e", "g", "i", "n", "s", " ", "a", "s", " ", "y", "o", "u", "n", "g", " ", "H", "a", "r", "r", "y", " ", "P", "o", "t", "t", "e", "r", " ", "d", "i", "s", "c", "o", "v", "e", "r", "s", " ", "h", "i", "s", " ", "t", "r", "u", "e", " ", "i", "d", "e", "n", "t", "i", "t", "y", " ", "a", "n", "d", " ", "e", "n", "t", "e", "r", "s", " ", "t", "h", "e", " ", "e", "n", "c", "h", "a", "n", "t", "i", "n", "g", " ", "w", "o", "r", "l", "d", " ", "o", "f", " ", "H", "o", "g", "w", "a", "r", "t", "s", " ", "S", "c", "h", "o", "o", "l", " ", "o", "f", " ", "W", "i", "t", "c", "h", "c", "r", "a", "f", "t", " ", "a", "n", "d", " ", "W", "i", "z", "a", "r", "d", "r", "y", ".">>,
   chamber |-> <<"H", "a", "r", "r", "y", " ", "r", "e", "t", "u", "r", "n", "s", " ", "t", "o", " ", "H", "o", "g", "w", "a", "r", "t", "s", " ", "f", "o", "r", " ", "h", "i", "s", " ", "s", "e", "c", "o", "n", "d", " ", "y", "e", "a", "r", ",", " ", "w", "h", "e", "r", "e", " ", "a", "n", "c", "i", "e", "n", "t", " ", "s", "e", "c", "r", "e", "t", "s", " ", "a", "n", "d", " ", "a", " ", "m", "y", "s", "t", "e", "r", "i", "o", "u", "s", " ", "m", "o", "n", "s", "t", "e", "r", " ", "t", "h", "r", "e", "a", "t", "e", "n", " ", "t", "h", "e", " ", "s", "c", "h", "o", "o", "l", ".">>,
   prisoner |-> <<"H", "a", "r", "r", "y", "'", "s", " ", "t", "h", "i", "r", "d", " ", "y", "e", "a", "r", " ", "b", "r", "i", "n", "g", "s", " ", "n", "e", "w", " ", "r", "e", "v", "e", "l", "a", "t", "i", "o", "n", "s", " ", "a", "b", "o", "u", "t", " ", "h", "i", "s", " ", "p", "a", "s", "t", " ", "a", "n", "d", " ", "t", "h", "e", " ", "e", "s", "c", "a", "p", "e", " ", "o", "f", " ", "a", " ", "d", "a", "n", "g", "e", "r", "o", "u", "s", " ", "p", "r", "i", "s", "o", "n", "e", "r", " ", "f", "r", "o", "m", " ", "A", "z", "k", "a", "b", "a", "n", ".">>,
   goblet |-> <<"H", "a", "r", "r", "y", " ", "f", "a", "c", "e", "s", " ", "h", "i", "s", " ", "m", "o", "s", "t", " ", "d", "a", "n", "g", "e", "r", "o", "u", "s", " ", "c", "h", "a", "l", "l", "e", "n", "g", "e", "s", " ", "y", "e", "t", " ", "a", "s", " ", "h", "e", " ", "c", "o", "m", "p", "e", "t", "e", "s", " ", "i", "n", " ", "t", "h", "e", " ", "l", "e", "g", "e", "n", "d", "a", "r", "y", " ", "T", "r", "i", "w", "i", "z", "a", "r", "d", " ", "T", "o", "u", "r", "n", "a", "m", "e", "n", "t", ".">>,
   phoenix |-> <<"A", "s", " ", "V", "o", "l", "d", "e", "m", "o", "r", "t", " ", "r", "e", "t", "u", "r", "n", "s", " ", "t", "o", " ", "p", "o", "w", "e", "r", ",", " ", "H", "a", "r", "r", "y", " ", "m", "u", "s", "t", " ", "u", "n", "i", "t", "e", " ", "h", "i", "s", " ", "f", "r", "i", "e", "n", "d", "s", " ", "a", "n", "d", " ", "f", "o", "r", "m", " ", "a", " ", "s", "e", "c", "r", "e", "t", " ", "o", "r", "g", "a", "n", "i", "z", "a", "t", "i", "o", "n", " ", "t", "o", " ", "f", "i", "g", "h", "t", " ", "a", "g", "a", "i", "n", "s", "t", " ", "t", "h", "e", " ", "d", "a", "r", "k", "n", "e", "s", "s", ".">>,
   prince |-> <<"H", "a", "r", "r", "y", " ", "d", "e", "l", "v", "e", "s", " ", "i", "n", "t", "o", " ", "V", "o", "l", "d", "e", "m", "o", "r", "t", "'", "s", " ", "d", "a", "r", "k", " ", "p", "a", "s", "t", " ", "w", "h", "i", "l", "e", " ", "p", "r", "e", "p", "a", "r", "i", "n", "g", " ", "f", "o", "r", " ", "t", "h", "e", " ", "u", "l", "t", "i", "m", "a", "t", "e", " ", "c", "o", "n", "f", "r", "o", "n", "t", "a", "t", "i", "o", "n", " ", "b", "e", "t", "w", "e", "e", "n", " ", "g", "o", "o", "d", " ", "a", "n", "d", " ", "e", "v", "i", "l", ".">>,
   hallows |-> <<"T", "h", "e", " ", "e", "p", "i", "c", " ", "c", "o", "n", "c", "l", "u", "s", "i", "o", "n", " ", "t", "o", " ", "H", "a", "r", "r", "y", "'", "s", " ", "j", "o", "u", "r", "n", "e", "y", " ", "a", "s", " ", "h", "e", " ", "f", "a", "c", "e", "s", " ", "h", "i", "s", " ", "d", "e", "s", "t", "i", "n", "y", " ", "a", "n", "d", " ", "t", "h", "e", " ", "f", "i", "n", "a", "l", " ", "b", "a", "t", "t", "l", "e", " ", "a", "g", "a", "i", "n", "s", "t", " ", "V", "o", "l", "d", "e", "m", "o", "r", "t", ".">>,
   potter |-> <<"J", "o", "i", "n", " ", "H", "a", "r", "r", "y", " ", "P", "o", "t", "t", "e", "r", " ", "o", "n", " ", "a", "n", " ", "u", "n", "f", "o", "r", "g", "e", "t", "t", "a", "b", "l", "e", " ", "m", "a", "g", "i", "c", "a", "l", " ", "a", "d", "v", "e", "n", "t", "u", "r", "e", " ", "f", "i", "l", "l", "e", "d", " ", "w", "i", "t", "h", " ", "f", "r", "i", "e", "n", "d", "s", "h", "i", "p", ",", " ", "c", "o", "u", "r", "a", "g", "e", ",", " ", "a", "n", "d", " ", "t", "h", "e", " ", "t", "r", "i", "u", "m", "p", "h", " ", "o", "f", " ", "g", "o", "o", "d", " ", "o", "v", "e", "r", " ", "e", "v", "i", "l", ".">>,
   strike |-> <<"F", "o", "l", "l", "o", "w", " ", "p", "r", "i", "v", "a", "t", "e", " ", "d", "e", "t", "e", "c", "t", "i", "v", "e", " ", "C", "o", "r", "m", "o", "r", "a", "n", " ", "S", "t", "r", "i", "k", "e", " ", "a", "s", " ", "h", "e", " ", "u", "n", "r", "a", "v", "e", "l", "s", " ", "c", "o", "m", "p", "l", "e", "x", " ", "m", "y", "s", "t", "e", "r", "i", "e", "s", " ", "i", "n", " ", "t", "h", "i", "s", " ", "g", "r", "i", "p", "p", "i", "n", "g", " ", "c", "r", "i", "m", "e", " ", "s", "e", "r", "i", "e", "s", " ", "t", "h", "a", "t", " ", "s", "h", "o", "w", "c", "a", "s", "e", "s", " ", "R", "o", "w", "l", "i", "n", "g", "'", "s", " ", "m", "a", "s", "t", "e", "r", "f", "u", "l", " ", "s", "t", "o", "r", "y", "t", "e", "l", "l", "i", "n", "g", " ", "b", "e", "y", "o", "n", "d", " ", "t", "h", "e", " ", "w", "i", "z", "a", "r", "d", "i", "n", "g", " ", "w", "o", "r", "l", "d", ".">>,
   vacancy |-> <<"A", " ", "d", "a", "r", "k", "l", "y", " ", "c", "o", "m", "i", "c", " ", "a", "n", "d", " ", "d", "e", "e", "p", "l", "y", " ", "m", "o", "v", "i", "n", "g", " ", "n", "o", "v", "e", "l", " ", "t", "h", "a", "t", " ", "e", "x", "p", "l", "o", "r", "e", "s", " ", "t", "h", "e", " ", "h", "i", "d", "d", "e", "n", " ", "t", "e", "n", "s", "i", "o", "n", "s", " ", "a", "n", "d", " ", "c", "o", "n", "f", "l", "i", "c", "t", "s", " ", "w", "i", "t", "h", "i", "n", " ", "a", " ", "s", "e", "e", "m", "i", "n", "g", "l", "y", " ", "i", "d", "y", "l", "l", "i", "c", " ", "E", "n", "g", "l", "i", "s", "h", " ", "t", "o", "w", "n", ".">>,
   beasts |-> <<"E", "x", "p", "l", "o", "r", "e", " ", "t", "h", "e", " ", "m", "a", "g", "i", "c", "a", "l", " ", "w", "o", "r", "l", "d", " ", "o", "f", " ", "f", "a", "n", "t", "a", "s", "t", "i", "c", " ", "c", "r", "e", "a", "t", "u", "r", "e", "s", " ", "i", "n", " ", "t", "h", "i", "s", " ", "e", "n", "c", "h", "a", "n", "t", "i", "n", "g", " ", "c", "o", "m", "p", "a", "n", "i", "o", "n", " ", "t", "o", " ", "t", "h", "e", " ", "H", "a", "r", "r", "y", " ", "P", "o", "t", "t", "e", "r", " ", "u", "n", "i", "v", "e", "r", "s", "e", ".">>,
   fantasy |-> <<"A", " ", "s", "p", "e", "l", "l", "b", "i", "n", "d", "i", "n", "g", " ", "f", "a", "n", "t", "a", "s", "y", " ", "t", "a", "l", "e", " ", "t", "h", "a", "t", " ", "t", "r", "a", "n", "s", "p", "o", "r", "t", "s", " ", "r", "e", "a", "d", "e", "r", "s", " ", "t", "o", " ", "a", " ", "w", "o", "r", "l", "d", " ", "o", "f", " ", "m", "a", "g", "i", "c", ",", " ", "a", "d", "v", "e", "n", "t", "u", "r", "e", ",", " ", "a", "n", "d", " ", "u", "n", "f", "o", "r", "g", "e", "t", "t", "a", "b", "l", "e", " ", "c", "h", "a", "r", "a", "c", "t", "e", "r", "s", " ", "c", "r", "e", "a", "t", "e", "d", " ", "b", "y", " ", "t", "h", "e", " ", "m", "a", "s", "t", "e", "r", "f", "u", "l", " ", "J", ".", "K", ".", " ", "R", "o", "w", "l", "i", "n", "g", ".">>,
   mystery |-> <<"A", " ", "c", "o", "m", "p", "e", "l", "l", "i", "n", "g", " ", "m", "y", "s", "t", "e", "r", "y", " ", "t", "h", "a", "t", " ", "w", "e", "a", "v", "e", "s", " ", "t", "o", "g", "e", "t", "h", "e", "r", " ", "i", "n", "t", "r", "i", "c", "a", "t", "e", " ", "p", "l", "o", "t", "l", "i", "n", "e", "s", " ", "a", "n", "d", " ", "c", "o", "m", "p", "l", "e", "x", " ", "c", "h", "a", "r", "a", "c", "t", "e", "r", "s", " ", "i", "n", " ", "J", ".", "K", ".", " ", "R", "o", "w", "l", "i", "n", "g", "'", "s", " ", "s", "i", "g", "n", "a", "t", "u", "r", "e", " ", "s", "t", "o", "r", "y", "t", "e", "l", "l", "i", "n", "g", " ", "s", "t", "y", "l", "e", ".">>,
   young |-> <<"A", "n", " ", "e", "n", "g", "a", "g", "i", "n", "g", " ", "t", "a", "l", "e", " ", "t", "h", "a", "t", " ", "c", "a", "p", "t", "u", "r", "e", "s", " ", "t", "h", "e", " ", "i", "m", "a", "g", "i", "n", "a", "t", "i", "o", "n", " ", "o", "f", " ", "r", "e", "a", "d", "e", "r", "s", " ", "y", "o", "u", "n", "g", " ", "a", "n", "d", " ", "o", "l", "d", " ", "w", "i", "t", "h", " ", "i", "t", "s", " ", "r", "i", "c", "h", " ", "s", "t", "o", "r", "y", "t", "e", "l", "l", "i", "n", "g", " ", "a", "n", "d", " ", "m", "e", "m", "o", "r", "a", "b", "l", "e", " ", "c", "h", "a", "r", "a", "c", "t", "e", "r", "s", ".">>,
   generic |-> <<"A", " ", "c", "a", "p", "t", "i", "v", "a", "t", "i", "n", "g", " ", "w", "o", "r", "k", " ", "b", "y", " ", "J", ".", "K", ".", " ", "R", "o", "w", "l", "i", "n", "g", " ", "t", "h", "a", "t", " ", "d", "e", "m", "o", "n", "s", "t", "r", "a", "t", "e", "s", " ", "h", "e", "r", " ", "e", "x", "c", "e", "p", "t", "i", "o", "n", "a", "l", " ", "a", "b", "i", "l", "i", "t", "y", " ", "t", "o", " ", "c", "r", "a", "f", "t", " ", "c", "o", "m", "p", "e", "l", "l", "i", "n", "g", " ", "s", "t", "o", "r", "i", "e", "s", " ", "w", "i", "t", "h", " ", "d", "e", "p", "t", "h", ",", " ", "e", "m", "o", "t", "i", "o", "n", ",", " ", "a", "n", "d", " ", "u", "n", "f", "o", "r", "g", "e", "t", "t", "a", "b", "l", "e", " ", "c", "h", "a", "r", "a", "c", "t", "e", "r", "s", ".">>]

\* book.title.toLowerCase() throws when the title is not a string
getFallbackDescriptionThrows(book) == book.title.kind # "string"

\* variant: the keywords of the detective series are tested before the
\* series token
getFallbackDescriptionStrikeFirst(book) ==
  LET title == ToLowerCase(book.title.str)
      has(word) == Includes(title, word)
  IN  IF \/ has(<<"s", "t", "r", "i", "k", "e">>) \/ has(<<"c", "u", "c", "k", "o", "o">>) \/ has(<<"s", "i", "l", "k", "w", "o", "r", "m">>)
         \/ has(<<"e", "v", "i", "l">>) \/ has(<<"w", "h", "i", "t", "e">>) \/ has(<<"b", "l", "o", "o", "d">>)
         \/ has(<<"h", "e", "a", "r", "t">>) \/ has(<<"g", "r", "a", "v", "e">>)
        THEN fallbackSentences.strike
      ELSE IF has(<<"h", "a", "r", "r", "y", " ", "p", "o", "t", "t", "e", "r">>) THEN fallbackSentences.potter
      ELSE fallbackSentences.generic

getFallbackDescription(book) ==
  LET title == ToLowerCase(book.title.str)
      subjects == IF Truthy(book.subject) THEN book.subject.items ELSE <<>>
      subjectStr == ToLowerCase(Join(subjects, <<" ">>))
      has(word) == Includes(title, word)
  IN  IF has(<<"h", "a", "r", "r", "y", " ", "p", "o", "t", "t", "e", "r">>)
        THEN IF has(<<"p", "h", "i", "l", "o", "s", "o", "p", "h", "e", "r">>) \/ has(<<"s", "o", "r", "c", "e", "r", "e", "r">>)
               THEN fallbackSentences.philosopher
             ELSE IF has(<<"c", "h", "a", "m", "b", "e", "r">>) THEN fallbackSentences.chamber
             ELSE IF has(<<"p", "r", "i", "s", "o", "n", "e", "r">>) THEN fallbackSentences.prisoner
             ELSE IF has(<<"g", "o", "b", "l", "e", "t">>) THEN fallbackSentences.goblet
             ELSE IF has(<<"p", "h", "o", "e", "n", "i", "x">>) THEN fallbackSentences.phoenix
             ELSE IF has(<<"p", "r", "i", "n", "c", "e">>) THEN fallbackSentences.prince
             ELSE IF has(<<"h", "a", "l", "l", "o", "w", "s">>) THEN fallbackSentences.hallows
             ELSE fallbackSentences.potter
      ELSE IF \/ has(<<"s", "t", "r", "i", "k", "e">>) \/ has(<<"c", "u", "c", "k", "o", "o">>) \/ has(<<"s", "i", "l", "k", "w", "o", "r", "m">>)
              \/ has(<<"e", "v", "i", "l">>) \/ has(<<"w", "h", "i", "t", "e">>) \/ has(<<"b", "l", "o", "o", "d">>)
              \/ has(<<"h", "e", "a", "r", "t">>) \/ has(<<"g", "r", "a", "v", "e">>)
        THEN fallbackSentences.strike
      ELSE IF has(<<"c", "a", "s", "u", "a", "l", " ", "v", "a", "c", "a", "n", "c", "y">>) THEN fallbackSentences.vacancy
      ELSE IF has(<<"f", "a", "n", "t", "a", "s", "t", "i", "c", " ", "b", "e", "a", "s", "t", "s">>) THEN fallbackSentences.beasts
      ELSE IF Includes(subjectStr, <<"f", "a", "n", "t", "a", "s", "y">>) \/ Includes(subjectStr, <<"m", "a", "g", "i", "c">>)
        THEN fallbackSentences.fantasy
      ELSE IF Includes(subjectStr, <<"m", "y", "s", "t", "e", "r", "y">>) \/ Includes(subjectStr, <<"c", "r", "i", "m", "e">>)
        THEN fallbackSentences.mystery
      ELSE IF Includes(subjectStr, <<"y", "o", "u", "n", "g", " ", "a", "d", "u", "l", "t">>) \/ Includes(subjectStr, <<"c", "h", "i", "l", "d", "r", "e", "n">>)
        THEN fallbackSentences.young
      ELSE fallbackSentences.generic

\* variant: a failure of the dataset request reaches the caller
generateBookDescriptionPropagating(book, outcome) ==
  IF datasetThrows(book, outcome) \/ getFallbackDescriptionThrows(book)
    THEN [st |-> "rejected", text |-> <<>>, path |-> "dataset"]
  ELSE IF fetchFromGoodreadsDataset(book, outcome) # <<>>
    THEN [st |-> "resolved", text |-> fetchFromGoodreadsDataset(book, outcome),
          path |-> "dataset"]
  ELSE [st |-> "resolved", text |-> getFallbackDescription(book),
        path |-> "fallback"]

\* the promise generateBookDescription returns, given the answer of the
\* dataset request
generateBookDescription(book, outcome) ==
  IF fetchFromGoodreadsDataset(book, outcome) # <<>>
    THEN [st |-> "resolved", text |-> fetchFromGoodreadsDataset(book, outcome),
          path |-> "dataset"]
  ELSE IF getFallbackDescriptionThrows(book)
    THEN [st |-> "rejected", text |-> <<>>, path |-> "fallback"]
  ELSE [st |-> "resolved", text |-> getFallbackDescription(book),
        path |-> "fallback"]

(***************************************************************************)
(* Calls of generateBookDescription and of categorizeGenre on bounded      *)
(* inputs.                                                                 *)
(***************************************************************************)
\* most rows in an answer of the dataset
MaxRows == 2

Described(book, title, subject, description) ==
  [book EXCEPT !.title = title, !.subject = subject, !.description = description]

\* books: titles of each rule of getFallbackDescription, with and without
\* subjects, a book with a description and a book without a title
BookPool ==
  {hitInk, hitAnt, hitNoTitle,
   Described(hitAnt, Str(<<"A", "n", "t">>), Arr(<<>>), Str(<<"A", " ", "t", "a", "l", "e", ".">>)),
   Described(hitAnt, Str(<<"A", "n", "t">>), Arr(<<<<"C", "r", "i", "m", "e">>, <<"F", "a", "n", "t", "a", "s", "y">>>>), Undefined),
   Described(hitAnt, Str(<<"O", "w", "l">>), Arr(<<<<"C", "r", "i", "m", "e">>>>), Undefined),
   Described(hitAnt, Str(<<"O", "w", "l">>), Arr(<<<<"C", "h", "i", "l", "d", "r", "e", "n", "'", "s", " ", "s", "t", "o", "r", "i", "e", "s">>>>), Undefined),
   Described(hitInk, Str(<<"H", "a", "r", "r", "y", " ", "P", "o", "t", "t", "e", "r", " ", "a", "n", "d", " ", "t", "h", "e", " ", "H", "a", "l", "f", "-", "B", "l", "o", "o", "d", " ", "P", "r", "i", "n", "c", "e">>),
             Arr(<<<<"F", "a", "n", "t", "a", "s", "y">>>>), Undefined),
   Described(hitInk, Str(<<"H", "a", "r", "r", "y", " ", "P", "o", "t", "t", "e", "r", " ", "a", "n", "d", " ", "t", "h", "e", " ", "C", "u", "r", "s", "e", "d", " ", "C", "h", "i", "l", "d">>),
             Arr(<<<<"M", "y", "s", "t", "e", "r", "y">>>>), Undefined),
   Described(hitInk, Str(<<"T", "h", "e", " ", "I", "n", "k", " ", "B", "l", "a", "c", "k", " ", "H", "e", "a", "r", "t">>), Arr(<<<<"F", "a", "n", "t", "a", "s", "y", " ", "f", "i", "c", "t", "i", "o", "n">>>>),
             Undefined),
   Described(hitInk, Str(<<"T", "h", "e", " ", "C", "a", "s", "u", "a", "l", " ", "V", "a", "c", "a", "n", "c", "y">>), Arr(<<<<"C", "r", "i", "m", "e">>>>), Undefined),
   Described(hitInk, Str(<<"F", "a", "n", "t", "a", "s", "t", "i", "c", " ", "B", "e", "a", "s", "t", "s">>), Arr(<<<<"M", "a", "g", "i", "c">>>>), Undefined)}

Row(wellFormed, title, authors, description) ==
  [wellFormed |-> wellFormed, title |-> title, authors |-> authors,
   description |-> description]

\* rows: a match with three sentences, a match with a short description, a
\* row of another author, a row without title, a row without row.row
RowPool ==
  {Row(TRUE, <<"I", "n", "k">>, <<"J", ".", "K", ".", " ", "R", "o", "w", "l", "i", "n", "g">>,
       <<" ", "A", " ", "y", "o", "u", "n", "g", " ", "w", "i", "z", "a", "r", "d", " ", "l", "e", "a", "r", "n", "s", " ", "t", "o", " ", "w", "r", "i", "t", "e", ".", " ", "T", "h", "e", " ", "i", "n", "k", " ", "n", "e", "v", "e", "r", " ", "d", "r", "i", "e", "s", "!", " ", "N", "o", "b", "o", "d", "y", " ", "k", "n", "o", "w", "s", " ", "w", "h", "y", ".", " ">>),
   Row(TRUE, <<"I", "n", "k">>, <<"J", ".", "K", ".", " ", "R", "o", "w", "l", "i", "n", "g">>, <<"S", "h", "o", "r", "t", " ", "t", "e", "x", "t", ".">>),
   Row(TRUE, <<"A", "n", "t">>, <<"W", "i", "l", "l", "i", "a", "m", " ", "S", "h", "a", "k", "e", "s", "p", "e", "a", "r", "e">>,
       <<"A", " ", "p", "l", "a", "y", " ", "a", "b", "o", "u", "t", " ", "a", "n", "t", "s", " ", "a", "n", "d", " ", "t", "h", "e", " ", "l", "o", "n", "g", " ", "s", "u", "m", "m", "e", "r", " ", "t", "h", "e", "y", " ", "s", "p", "e", "n", "d", " ", "i", "n", " ", "t", "h", "e", " ", "f", "i", "e", "l", "d", "s", " ", "o", "f", " ", "D", "e", "n", "m", "a", "r", "k", ".">>),
   Row(TRUE, <<>>, <<"R", "o", "w", "l", "i", "n", "g", ",", " ", "J", ".", "K", ".">>,
       <<"O", "n", "e", " ", "v", "e", "r", "y", " ", "l", "o", "n", "g", " ", "s", "e", "n", "t", "e", "n", "c", "e", " ", "a", "b", "o", "u", "t", " ", "n", "o", "t", "h", "i", "n", "g", " ", "i", "n", " ", "p", "a", "r", "t", "i", "c", "u", "l", "a", "r", ",", " ", "w", "i", "t", "h", "o", "u", "t", " ", "a", "n", "y", " ", "s", "t", "o", "p">>),
   Row(FALSE, <<>>, <<>>, <<>>)}

DatasetOutcomes ==
  {NoOutcome}
  \cup {[answered |-> TRUE, ok |-> o, parsable |-> p, hasRows |-> FALSE,
         rows |-> <<>>] : o \in BOOLEAN, p \in BOOLEAN}
  \cup {[answered |-> TRUE, ok |-> TRUE, parsable |-> TRUE, hasRows |-> TRUE,
         rows |-> r] : r \in SeqsUpTo(RowPool, MaxRows)}

\* subjects: built from words of the table, of the exclusion list and of
\* neither
SubjectWords ==
  {<<"F", "a", "n", "t", "a", "s", "y">>, <<"f", "i", "c", "t", "i", "o", "n">>, <<"M", "a", "g", "i", "c">>, <<"J", "u", "v", "e", "n", "i", "l", "e">>, <<"g", "r", "a", "d", "e", " ", "3">>, <<"c", "r", "i", "m", "e">>,
   <<"9">>, <<"a", "n", "d">>, <<"i", "n", " ", "l", "i", "t", "e", "r", "a", "t", "u", "r", "e">>, <<"(", "1", "9", "9", "7", ")">>, <<"-", "-">>, <<"O", "w", "l", "s">>, <<"e", "v", "i", "l">>,
   <<"g", "o", "o", "d">>, <<",">>, <<"s", "c", "h", "o", "o", "l", " ", "s", "t", "o", "r", "i", "e", "s">>}

SubjectPool ==
  {<<>>, <<"F", "a", "n", "t", "a", "s", "y", " ", "f", "i", "c", "t", "i", "o", "n">>, <<"J", "u", "v", "e", "n", "i", "l", "e", " ", "f", "i", "c", "t", "i", "o", "n", ",", " ", "g", "r", "a", "d", "e", " ", "3">>,
   <<" ", "M", "A", "G", "I", "C", " ">>, <<"w", "i", "z", "a", "r", "d", "s", " ", "-", "-", " ", "f", "i", "c", "t", "i", "o", "n">>,
   <<"E", "n", "g", "l", "a", "n", "d", ",", " ", "F", "i", "c", "t", "i", "o", "n", " ", "/", " ", "F", "a", "m", "i", "l", "i", "e", "s", " ", "/", " ", "S", "c", "h", "o", "o", "l", "s", ",", " ", "F", "a", "n", "t", "a", "s", "y", " ", "a", "n", "d", " ", "M", "a", "g", "i", "c", ",", " ", "F", "r", "i", "e", "n", "d", "s", "h", "i", "p">>,
   <<"H", "i", "s", "t", "o", "r", "i", "c", "a", "l", " ", "f", "i", "c", "t", "i", "o", "n">>, <<" ", "l", "i", "t", "e", "r", "a", "r", "y", " ", "f", "i", "c", "t", "i", "o", "n", " ">>, <<"F", "a", "n", "t", "a", "s", "y", ")">>,
   <<"M", "a", "g", "i", "c", " ", " ", " ", " ", " ", " ", " ", " ", " ", " ", " ", " ", " ", " ", " ", " ", " ", " ", " ", " ", " ", " ", " ", " ", " ", " ", " ", " ", " ", " ", " ", " ", " ", " ", " ", " ", " ", " ", " ", " ", " ", " ", " ", " ", " ", " ", " ", " ", " ", " ", " ", " ", " ", " ", " ", " ", " ", " ", " ", " ">>}
  \cup {a \o <<" ">> \o b : a \in SubjectWords, b \in SubjectWords}

TextFrame == UNCHANGED <<managerVars, mergeVars, fuzzyVars, fetchVars, widgetVars>>

\* generateBookDescription(book) is called: the dataset request is sent
DescribeCall ==
  /\ descPc = "idle"
  /\ descPc' = "awaitDataset"
  /\ UNCHANGED <<descBook, descOutcome, descResult, genreSubject, genreResult>>
  /\ TextFrame

\* the dataset request settles and generateBookDescription with it
DatasetSettles ==
  /\ descPc = "awaitDataset"
  /\ \E outcome \in DatasetOutcomes :
       /\ descOutcome' = outcome
       /\ descResult' = generateBookDescription(descBook, outcome)
  /\ descPc' = "done"
  /\ UNCHANGED <<descBook, genreSubject, genreResult>>
  /\ TextFrame

\* categorizeGenre(subject) is evaluated
CategorizeCall ==
  /\ genreResult.st = "none"
  /\ genreResult' = [st |-> "returned", value |-> categorizeGenre(genreSubject)]
  /\ UNCHANGED <<descBook, descOutcome, descPc, descResult, genreSubject>>
  /\ TextFrame

DescribeInit ==
  /\ ManagerInit /\ MergeIdle /\ FuzzyIdle /\ FetchIdle /\ WidgetIdle
  /\ descBook \in BookPool
  /\ descOutcome = NoOutcome
  /\ descPc = "idle"
  /\ descResult = NoDescription
  /\ genreSubject = <<>>
  /\ genreResult = NoGenre

DescribeNext == DescribeCall \/ DatasetSettles

SpecDescribe == DescribeInit /\ [][DescribeNext]_vars

GenreInit ==
  /\ ManagerInit /\ MergeIdle /\ FuzzyIdle /\ FetchIdle /\ WidgetIdle
  /\ descBook = BlankRecord
  /\ descOutcome = NoOutcome
  /\ descPc = "idle"
  /\ descResult = NoDescription
  /\ genreSubject \in SubjectPool
  /\ genreResult = NoGenre

GenreNext == CategorizeCall

SpecGenre == GenreInit /\ [][GenreNext]_vars

(***************************************************************************)
(* debounce(func, wait): the wrapper it returns, called at arbitrary       *)
(* instants, and the timeouts it sets.  Time is counted in ticks; a timer  *)
(* that is due runs before time passes and before an event of the same     *)
(* instant is handled.                                                     *)
(***************************************************************************)
\* wait, in ticks
WaitTicks == 2
\* calls of the wrapper, and the instants at which they are made
MaxCalls == 3
MaxElapsed == 6

\* the arguments a call passes
CallArgs == {"a", "b"}

TimerDue == \E t \in timers : t.due <= elapsed

\* variant: the wrapper does not clear the timer of the call before
executedFunctionNoClear(args) ==
  LET set == [id |-> Len(calls) + 1, due |-> elapsed + WaitTicks, args |-> args]
  IN  /\ Len(calls) < MaxCalls
      /\ ~TimerDue
      /\ timers' = timers \cup {set}
      /\ timeout' = set
      /\ calls' = Append(calls, [time |-> elapsed, args |-> args])
      /\ UNCHANGED <<funcCalls, elapsed>>

\* executedFunction(...args): clearTimeout(timeout), then
\* timeout = setTimeout(later, wait)
executedFunction(args) ==
  LET set == [id |-> Len(calls) + 1, due |-> elapsed + WaitTicks, args |-> args]
  IN  /\ Len(calls) < MaxCalls
      /\ ~TimerDue
      /\ timers' = (timers \ {timeout}) \cup {set}
      /\ timeout' = set
      /\ calls' = Append(calls, [time |-> elapsed, args |-> args])
      /\ UNCHANGED <<funcCalls, elapsed>>

\* later(), the callback of a timer that is due: clearTimeout(timeout), then
\* func(...args) with the arguments of the call that set the timer
later(t) ==
  /\ t \in timers
  /\ t.due <= elapsed
  /\ timers' = (timers \ {t}) \ {timeout}
  /\ funcCalls' = Append(funcCalls, [time |-> elapsed, args |-> t.args])
  /\ UNCHANGED <<timeout, calls, elapsed>>

\* a tick passes while no timer is due
TimePasses ==
  /\ elapsed < MaxElapsed
  /\ ~TimerDue
  /\ elapsed' = elapsed + 1
  /\ UNCHANGED <<timeout, timers, calls, funcCalls>>

DebounceFrame ==
  UNCHANGED <<managerVars, mergeVars, fuzzyVars, fetchVars, textVars, modalVars,
              carouselVars, pregenVars, loopVars>>

DebounceInit ==
  /\ ManagerInit /\ MergeIdle /\ FuzzyIdle /\ FetchIdle /\ TextIdle
  /\ DebounceIdle /\ ModalIdle /\ CarouselIdle /\ PregenIdle /\ LoopIdle

DebounceNext ==
  \/ \E args \in CallArgs : executedFunction(args) /\ DebounceFrame
  \/ \E t \in timers : later(t) /\ DebounceFrame
  \/ TimePasses /\ DebounceFrame

SpecDebounce == DebounceInit /\ [][DebounceNext]_vars

(***************************************************************************)
(* BooksPageModal: showWithBook and populateDescription.  A description    *)
(* is identified by the book generateBookDescription produced it for.      *)
(***************************************************************************)
\* calls of showWithBook
MaxShows == 3

\* the books whose cards the user can click
ModalBooks == {hitInk, hitAnt}

\* getBookCacheKey(book): `${book.title}_${book.first_publish_year || 'unknown'}`
getBookCacheKey(book) ==
  ValueToString(book.title) \o <<"_">> \o
    (IF Truthy(book.first_publish_year)
       THEN ValueToString(book.first_publish_year)
       ELSE <<"u", "n", "k", "n", "o", "w", "n">>)

\* the text generateBookDescription resolves with for a book
DescriptionFor(book) == [kind |-> "text", about |-> getBookCacheKey(book)]

\* getCachedDescription(book): descriptionCache.get(cacheKey) || null
getCachedDescription(book) ==
  IF getBookCacheKey(book) \in DOMAIN descriptionCache
    THEN descriptionCache[getBookCacheKey(book)]
    ELSE EmptyElement

\* descriptionCache.set(cacheKey, description)
cacheSet(cache, key, description) ==
  [k \in DOMAIN cache \cup {key} |-> IF k = key THEN description ELSE cache[k]]

ModalFrame ==
  UNCHANGED <<managerVars, mergeVars, fuzzyVars, fetchVars, textVars,
              debounceVars, carouselVars, pregenVars, loopVars>>

\* showWithBook(book): show(), populateContent(book), whose
\* populateDescription writes the cached description or shows the spinner
\* and calls generateBookDescription(book)
showWithBook(book) ==
  /\ modalShows < MaxShows
  /\ modalShows' = modalShows + 1
  /\ modalOpen' = TRUE
  /\ modalBook' = book
  /\ IF getCachedDescription(book) # EmptyElement
       THEN /\ modalDescription' = getCachedDescription(book)
            /\ UNCHANGED modalRequests
       ELSE /\ modalDescription' = Spinner
            /\ modalRequests' =
                 modalRequests \cup {[id |-> modalShows + 1, book |-> book]}
  /\ UNCHANGED descriptionCache

\* the then-callback of populateDescription: generateBookDescription, which
\* does not reject, resolved for request r
descriptionResolves(r) ==
  /\ r \in modalRequests
  /\ modalRequests' = modalRequests \ {r}
  /\ modalDescription' = DescriptionFor(r.book)
  /\ descriptionCache' =
       cacheSet(descriptionCache, getBookCacheKey(r.book), DescriptionFor(r.book))
  /\ UNCHANGED <<modalOpen, modalBook, modalShows>>

\* hide(): close button, overlay or Escape
hide ==
  /\ modalOpen
  /\ modalOpen' = FALSE
  /\ UNCHANGED <<modalBook, modalDescription, modalRequests, modalShows,
                 descriptionCache>>

\* the page was loaded before; pre-generation may have cached descriptions
ModalInit ==
  /\ ManagerInit /\ MergeIdle /\ FuzzyIdle /\ FetchIdle /\ TextIdle
  /\ DebounceIdle /\ CarouselIdle /\ PregenIdle /\ LoopIdle
  /\ ModalClosed
  /\ \E cached \in SUBSET ModalBooks :
       descriptionCache =
         [k \in {getBookCacheKey(b) : b \in cached} |->
            [kind |-> "text", about |-> k]]

ModalNext ==
  \/ \E book \in ModalBooks : showWithBook(book) /\ ModalFrame
  \/ \E r \in modalRequests : descriptionResolves(r) /\ ModalFrame
  \/ hide /\ ModalFrame

SpecModal == ModalInit /\ [][ModalNext]_vars

(***************************************************************************)
(* FeaturedBooksCarousel: loadBooks, the hover handlers, manualScroll and  *)
(* the timers of the auto-scroll.  Scroll positions are in pixels; the     *)
(* container follows scrollTo at once.                                     *)
(***************************************************************************)
\* cardWidth
CardWidth == 316
\* container.scrollWidth - container.clientWidth
MaxScrollLeft == 700
\* interval timers set, and resume timeouts pending at a time
MaxIntervals == 4
MaxResumeTimers == 2

CarouselFrame ==
  UNCHANGED <<managerVars, mergeVars, fuzzyVars, fetchVars, textVars,
              debounceVars, modalVars, pregenVars, loopVars>>

\* startAutoScroll(): this.autoScrollInterval = setInterval(..., 3000)
CanStartAutoScroll == intervalsSet < MaxIntervals
startAutoScroll(active) ==
  /\ intervalsSet' = intervalsSet + 1
  /\ intervals' = active \cup {intervalsSet + 1}
  /\ autoScrollInterval' = intervalsSet + 1

\* stopAutoScroll(): clearInterval(this.autoScrollInterval) if it is set
stopAutoScroll == intervals \ {autoScrollInterval}

\* the position after one card to the right or to the left
scrolledRight ==
  IF currentPosition + CardWidth > MaxScrollLeft
    THEN MaxScrollLeft
    ELSE currentPosition + CardWidth
scrolledLeft ==
  IF currentPosition - CardWidth < 0 THEN 0 ELSE currentPosition - CardWidth

\* performAutoScroll()
performAutoScroll ==
  IF autoScrollDirection = 1
    THEN IF currentPosition >= MaxScrollLeft
           THEN autoScrollDirection' = -1 /\ UNCHANGED currentPosition
           ELSE currentPosition' = scrolledRight /\ UNCHANGED autoScrollDirection
    ELSE IF currentPosition <= 0
           THEN autoScrollDirection' = 1 /\ UNCHANGED currentPosition
           ELSE currentPosition' = scrolledLeft /\ UNCHANGED autoScrollDirection

\* loadBooks up to its await: init() calls it, and the retry button of the
\* error element calls it again
loadBooks ==
  /\ carouselPc \in {"constructed", "error"}
  /\ carouselPc' = "loading"
  /\ UNCHANGED <<autoScrollInterval, intervals, intervalsSet, resumeTimers,
                 isUserInteracting, pointerInside, currentPosition,
                 autoScrollDirection>>

\* loadBooks after the await: displayBooks and initCarouselFunctionality,
\* which attaches the listeners and calls startAutoScroll
loadBooksResolves ==
  /\ carouselPc = "loading"
  /\ carouselPc' = "shown"
  /\ CanStartAutoScroll
  /\ startAutoScroll(intervals)
  /\ UNCHANGED <<resumeTimers, isUserInteracting, pointerInside,
                 currentPosition, autoScrollDirection>>

\* loadBooks catches: showError
loadBooksRejects ==
  /\ carouselPc = "loading"
  /\ carouselPc' = "error"
  /\ UNCHANGED <<autoScrollInterval, intervals, intervalsSet, resumeTimers,
                 isUserInteracting, pointerInside, currentPosition,
                 autoScrollDirection>>

\* the pointer moves while the listeners are not attached
pointerMoves ==
  /\ carouselPc # "shown"
  /\ pointerInside' = ~pointerInside
  /\ UNCHANGED <<carouselPc, autoScrollInterval, intervals, intervalsSet,
                 resumeTimers, isUserInteracting, currentPosition,
                 autoScrollDirection>>

\* the mouseenter listener
mouseenter ==
  /\ carouselPc = "shown"
  /\ ~pointerInside
  /\ pointerInside' = TRUE
  /\ isUserInteracting' = TRUE
  /\ intervals' = stopAutoScroll
  /\ UNCHANGED <<carouselPc, autoScrollInterval, intervalsSet, resumeTimers,
                 currentPosition, autoScrollDirection>>

\* the mouseleave listener
mouseleave ==
  /\ carouselPc = "shown"
  /\ pointerInside
  /\ pointerInside' = FALSE
  /\ isUserInteracting' = FALSE
  /\ CanStartAutoScroll
  /\ startAutoScroll(intervals)
  /\ UNCHANGED <<carouselPc, resumeTimers, currentPosition,
                 autoScrollDirection>>

\* manualScroll(direction), called by the buttons of the wrapper
manualScroll(direction) ==
  /\ carouselPc = "shown"
  /\ resumeTimers < MaxResumeTimers
  /\ isUserInteracting' = TRUE
  /\ intervals' = stopAutoScroll
  /\ currentPosition' = IF direction = "next" THEN scrolledRight ELSE scrolledLeft
  /\ resumeTimers' = resumeTimers + 1
  /\ UNCHANGED <<carouselPc, autoScrollInterval, intervalsSet, pointerInside,
                 autoScrollDirection>>

\* the 5000 ms timeout of manualScroll
resumeTimeout ==
  /\ resumeTimers > 0
  /\ resumeTimers' = resumeTimers - 1
  /\ isUserInteracting' = FALSE
  /\ CanStartAutoScroll
  /\ startAutoScroll(intervals)
  /\ UNCHANGED <<carouselPc, pointerInside, currentPosition,
                 autoScrollDirection>>

\* the callback of an active interval timer
intervalCallback(id) ==
  /\ id \in intervals
  /\ IF ~isUserInteracting
       THEN performAutoScroll
       ELSE UNCHANGED <<currentPosition, autoScrollDirection>>
  /\ UNCHANGED <<carouselPc, autoScrollInterval, intervals, intervalsSet,
                 resumeTimers, isUserInteracting, pointerInside>>

CarouselInit ==
  /\ ManagerInit /\ MergeIdle /\ FuzzyIdle /\ FetchIdle /\ TextIdle
  /\ DebounceIdle /\ ModalIdle /\ PregenIdle /\ LoopIdle
  /\ CarouselConstructed
  /\ pointerInside \in BOOLEAN

CarouselNext ==
  \/ loadBooks /\ CarouselFrame
  \/ loadBooksResolves /\ CarouselFrame
  \/ loadBooksRejects /\ CarouselFrame
  \/ pointerMoves /\ CarouselFrame
  \/ mouseenter /\ CarouselFrame
  \/ mouseleave /\ CarouselFrame
  \/ \E direction \in {"next", "prev"} : manualScroll(direction) /\ CarouselFrame
  \/ resumeTimeout /\ CarouselFrame
  \/ \E id \in intervals : intervalCallback(id) /\ CarouselFrame

SpecCarousel == CarouselInit /\ [][CarouselNext]_vars

(***************************************************************************)
(* BooksPageManager.preGenerateDescriptions.  A call runs up to its first  *)
(* await at once; the requests of a batch settle in any order, with the    *)
(* description of the dataset or, when the dataset request failed, with    *)
(* the fallback description.                                               *)
(***************************************************************************)
\* batchSize
batchSize == 3
\* calls of preGenerateDescriptions
MaxPregenCalls == 3

\* the lists preGenerateDescriptions is called with
PregenLists ==
  {<<>>, <<hitAnt>>, <<hitInk, hitAnt, hitOmnibus, hitCasual>>}

PregenFrame ==
  UNCHANGED <<managerVars, mergeVars, fuzzyVars, fetchVars, textVars,
              debounceVars, carouselVars, modalOpen, modalBook,
              modalDescription, modalRequests, modalShows, loopVars>>

\* books.slice(i, i + batchSize), as positions of books
batchPositions(books, i) ==
  {j \in 1..Len(books) : i < j /\ j <= i + batchSize}

\* the callbacks of batch.map up to their await: the positions whose key the
\* cache does not hold call generateBookDescription
batchRequests(books, i) ==
  {j \in batchPositions(books, i) :
     getBookCacheKey(books[j]) \notin DOMAIN descriptionCache}

\* variant of the call below that does not test the flag
preGenerateDescriptionsReentrant(books) ==
  /\ pregenCalls < MaxPregenCalls
  /\ pregenCalls' = pregenCalls + 1
  /\ IF books = <<>>
       THEN UNCHANGED <<isPreGeneratingDescriptions, pregenBooks, pregenIndex,
                        pregenPc, pregenRequests, pregenRuns, pregenSent>>
       ELSE /\ isPreGeneratingDescriptions' = TRUE
            /\ pregenBooks' = books
            /\ pregenIndex' = 0
            /\ pregenPc' = "batch"
            /\ pregenRuns' = pregenRuns + 1
            /\ pregenRequests' = batchRequests(books, 0)
            /\ pregenSent' =
                 pregenSent \cup {[run |-> pregenRuns + 1, position |-> j] :
                                    j \in batchRequests(books, 0)}
  /\ UNCHANGED descriptionCache

\* preGenerateDescriptions(books) up to its first await
preGenerateDescriptions(books) ==
  /\ pregenCalls < MaxPregenCalls
  /\ pregenCalls' = pregenCalls + 1
  /\ IF isPreGeneratingDescriptions \/ books = <<>>
       THEN UNCHANGED <<isPreGeneratingDescriptions, pregenBooks, pregenIndex,
                        pregenPc, pregenRequests, pregenRuns, pregenSent>>
       ELSE /\ isPreGeneratingDescriptions' = TRUE
            /\ pregenBooks' = books
            /\ pregenIndex' = 0
            /\ pregenPc' = "batch"
            /\ pregenRuns' = pregenRuns + 1
            /\ pregenRequests' = batchRequests(books, 0)
            /\ pregenSent' =
                 pregenSent \cup {[run |-> pregenRuns + 1, position |-> j] :
                                    j \in batchRequests(books, 0)}
  /\ UNCHANGED descriptionCache

\* generateBookDescription(book) settles for position j:
\* descriptionCache.set(cacheKey, description)
pregenRequestSettles(j, kind) ==
  /\ j \in pregenRequests
  /\ pregenRequests' = pregenRequests \ {j}
  /\ descriptionCache' =
       cacheSet(descriptionCache, getBookCacheKey(pregenBooks[j]),
                [kind |-> kind, about |-> getBookCacheKey(pregenBooks[j])])
  /\ UNCHANGED <<isPreGeneratingDescriptions, pregenBooks, pregenIndex,
                 pregenPc, pregenCalls, pregenRuns, pregenSent>>

\* Promise.allSettled resolves: the 500 ms delay starts
batchSettled ==
  /\ pregenPc = "batch"
  /\ pregenRequests = {}
  /\ pregenPc' = "delay"
  /\ UNCHANGED <<isPreGeneratingDescriptions, pregenBooks, pregenIndex,
                 pregenRequests, pregenCalls, pregenRuns, pregenSent,
                 descriptionCache>>

\* the delay is over: i += batchSize, then the next batch, or the end of
\* the loop and the finally block
delayElapses ==
  /\ pregenPc = "delay"
  /\ pregenIndex' = pregenIndex + batchSize
  /\ IF pregenIndex + batchSize < Len(pregenBooks)
       THEN /\ pregenPc' = "batch"
            /\ pregenRequests' = batchRequests(pregenBooks, pregenIndex + batchSize)
            /\ pregenSent' =
                 pregenSent \cup
                   {[run |-> pregenRuns, position |-> j] :
                      j \in batchRequests(pregenBooks, pregenIndex + batchSize)}
            /\ UNCHANGED isPreGeneratingDescriptions
       ELSE /\ pregenPc' = "idle"
            /\ isPreGeneratingDescriptions' = FALSE
            /\ UNCHANGED <<pregenRequests, pregenSent>>
  /\ UNCHANGED <<pregenBooks, pregenCalls, pregenRuns, descriptionCache>>

PregenInit ==
  /\ ManagerInit /\ MergeIdle /\ FuzzyIdle /\ FetchIdle /\ TextIdle
  /\ DebounceIdle /\ ModalIdle /\ CarouselIdle /\ LoopIdle
  /\ PregenIdle

PregenNext ==
  \/ \E books \in PregenLists : preGenerateDescriptions(books) /\ PregenFrame
  \/ \E j \in pregenRequests, kind \in {"text", "fallback"} :
       pregenRequestSettles(j, kind) /\ PregenFrame
  \/ batchSettled /\ PregenFrame
  \/ delayElapses /\ PregenFrame

SpecPregen == PregenInit /\ [][PregenNext]_vars

(***************************************************************************)
(* enhanceBookData step by step: the for-of loop runs on until it awaits   *)
(* the detail request of a work with a key, and goes on when the request   *)
(* has settled.  The titles of the works are strings.                      *)
(***************************************************************************)
\* the works and the search hits enhanceBookData is called with
LoopWorks ==
  {<<>>, <<workInk, workAnt>>, <<workAnt, workOwl, workInk>>,
   <<workInk, workInk, workAnt>>}
LoopHits == {<<>>, <<hitAnt>>, <<hitInk, hitOmnibus>>}

LoopFrame ==
  UNCHANGED <<managerVars, fuzzyVars, fetchVars, textVars, debounceVars,
              modalVars, carouselVars, pregenVars, works, searchBooks, stage>>

\* variant: the loop does not wait for the detail request of a work
RECURSIVE runLoopEager(_, _, _)
runLoopEager(i, processed, output) ==
  IF i > Len(works)
    THEN [index |-> i, processed |-> processed, output |-> output,
          requests |-> {}]
  ELSE IF ~Truthy(works[i].title) \/ ProcessedKey(works[i]) \in processed
    THEN runLoopEager(i + 1, processed, output)
  ELSE IF Truthy(works[i].key)
    THEN LET rest == runLoopEager(i + 1, processed \cup {ProcessedKey(works[i])},
                                  output)
         IN  [rest EXCEPT !.requests = rest.requests \cup {i}]
  ELSE runLoopEager(i + 1, processed \cup {ProcessedKey(works[i])},
                    Append(output,
                           enhancedBook(works[i],
                                        searchMatch(works[i], searchBooks),
                                        BlankRecord)))

\* the loop from work i on, up to its next await or its end: the works it
\* skips, the records it pushes for works without a key and the request it
\* sends
RECURSIVE runLoop(_, _, _)
runLoop(i, processed, output) ==
  IF i > Len(works)
    THEN [index |-> i, processed |-> processed, output |-> output,
          requests |-> {}]
  ELSE IF ~Truthy(works[i].title) \/ ProcessedKey(works[i]) \in processed
    THEN runLoop(i + 1, processed, output)
  ELSE IF Truthy(works[i].key)
    THEN [index |-> i, processed |-> processed \cup {ProcessedKey(works[i])},
          output |-> output, requests |-> {i}]
  ELSE runLoop(i + 1, processed \cup {ProcessedKey(works[i])},
               Append(output,
                      enhancedBook(works[i], searchMatch(works[i], searchBooks),
                                   BlankRecord)))

\* the positions of a set in increasing order
RECURSIVE inOrder(_)
inOrder(S) ==
  IF S = {} THEN <<>>
  ELSE LET least == CHOOSE x \in S : \A y \in S : x <= y
       IN  <<least>> \o inOrder(S \ {least})

\* the state after the loop ran on from work i with the output so far; when
\* it has ended, the search hits that no work recorded are added
loopGoesOn(i, processed, output, pendingFetch, pendingBody) ==
  LET r == runLoop(i, processed, output)
      ended == r.index > Len(works) /\ r.requests = {} /\ pendingFetch = {}
               /\ pendingBody = {}
  IN  /\ loopIndex' = r.index
      /\ processedTitles' = r.processed
      /\ detailRequests' = pendingFetch \cup r.requests
      /\ detailBodies' = pendingBody
      /\ loopIssued' = loopIssued \o inOrder(r.requests)
      /\ loopPc' = IF ended THEN "done" ELSE "awaiting"
      /\ enhancedBooks' =
           IF ended THEN r.output \o addSearchOnly(searchBooks, r.processed)
           ELSE r.output

\* enhanceBookData(works, searchBooks) up to its first await
enhanceBookDataCall ==
  /\ loopPc = "idle"
  /\ details' = [i \in 1..Len(works) |-> BlankRecord]
  /\ loopGoesOn(1, {}, <<>>, {}, {})
  /\ abortTimers' = detailRequests'

\* the iteration of work j goes on with detailedWork: the record is pushed
\* and the loop runs on from the next work
iterationGoesOn(j, detailedWork, pendingFetch, pendingBody) ==
  /\ details' = [details EXCEPT ![j] = detailedWork]
  /\ loopGoesOn(j + 1, processedTitles,
                Append(enhancedBooks,
                       enhancedBook(works[j], searchMatch(works[j], searchBooks),
                                    detailedWork)),
                pendingFetch, pendingBody)

\* await fetch resolves with workResponse: clearTimeout(timeoutId), then
\* workResponse.json() is awaited if the response is ok
detailFetchResolves(j, ok) ==
  /\ j \in detailRequests
  /\ IF ok
       THEN /\ detailRequests' = detailRequests \ {j}
            /\ detailBodies' = detailBodies \cup {j}
            /\ abortTimers' = abortTimers \ {j}
            /\ UNCHANGED <<loopPc, loopIndex, processedTitles, loopIssued,
                           details, enhancedBooks>>
       ELSE /\ iterationGoesOn(j, BlankRecord, detailRequests \ {j}, detailBodies)
            /\ abortTimers' = (abortTimers \ {j}) \cup (detailRequests' \ detailRequests)

\* await fetch rejects with a network error: the catch block; the timer of
\* the iteration is left set
detailFetchRejects(j) ==
  /\ j \in detailRequests
  /\ iterationGoesOn(j, BlankRecord, detailRequests \ {j}, detailBodies)
  /\ abortTimers' = abortTimers \cup (detailRequests' \ detailRequests)

\* the 5 second timer of iteration t: controller.abort() rejects the fetch
\* if it is pending and has no effect otherwise
abortTimeout(t) ==
  /\ t \in abortTimers
  /\ IF t \in detailRequests
       THEN /\ iterationGoesOn(t, BlankRecord, detailRequests \ {t}, detailBodies)
            /\ abortTimers' =
                 (abortTimers \ {t}) \cup (detailRequests' \ detailRequests)
       ELSE /\ abortTimers' = abortTimers \ {t}
            /\ UNCHANGED <<loopPc, loopIndex, processedTitles, detailRequests,
                           detailBodies, loopIssued, details, enhancedBooks>>

\* await workResponse.json() resolves with the detail of the work
detailJsonResolves(j) ==
  /\ j \in detailBodies
  /\ iterationGoesOn(j, detailOf(works[j]), detailRequests, detailBodies \ {j})
  /\ abortTimers' = abortTimers \cup (detailRequests' \ detailRequests)

\* await workResponse.json() rejects: the catch block
detailJsonRejects(j) ==
  /\ j \in detailBodies
  /\ iterationGoesOn(j, BlankRecord, detailRequests, detailBodies \ {j})
  /\ abortTimers' = abortTimers \cup (detailRequests' \ detailRequests)

LoopInit ==
  /\ ManagerInit /\ FuzzyIdle /\ FetchIdle /\ TextIdle
  /\ DebounceIdle /\ ModalIdle /\ CarouselIdle /\ PregenIdle
  /\ LoopIdle
  /\ works \in LoopWorks
  /\ searchBooks \in LoopHits
  /\ details = <<>>
  /\ enhancedBooks = <<>>
  /\ stage = "start"

LoopNext ==
  \/ enhanceBookDataCall /\ LoopFrame
  \/ \E j \in detailRequests, ok \in BOOLEAN : detailFetchResolves(j, ok) /\ LoopFrame
  \/ \E j \in detailRequests : detailFetchRejects(j) /\ LoopFrame
  \/ \E t \in abortTimers : abortTimeout(t) /\ LoopFrame
  \/ \E j \in detailBodies : detailJsonResolves(j) /\ LoopFrame
  \/ \E j \in detailBodies : detailJsonRejects(j) /\ LoopFrame

SpecLoop == LoopInit /\ [][LoopNext]_vars

(***************************************************************************)
(* Properties of the ingest (filterBooks, displayBooks).                   *)
(***************************************************************************)
\* the records of the ingested list that have both a title and a year
Eligible == SelectSeq(IngestInput, hasTitleAndYear)

\* positions of the records with normalized title t
PositionsIn(books, t) == {i \in 1..Len(books) : NormalizedTitle(books[i]) = t}

\* normalized titles that two or more eligible records of the input share
DuplicatedTitles ==
  {t \in {NormalizedTitle(Eligible[i]) : i \in 1..Len(Eligible)} :
     Cardinality(PositionsIn(Eligible, t)) > 1}

UniqueTitles(books) ==
  \A i, j \in 1..Len(books) :
    NormalizedTitle(books[i]) = NormalizedTitle(books[j]) => i = j

\* allBooks holds exactly one record titled t: the first eligible occurrence
KeepsFirst(t) ==
  /\ Cardinality(PositionsIn(allBooks, t)) = 1
  /\ \A i \in PositionsIn(allBooks, t) :
       allBooks[i] = Eligible[Min(PositionsIn(Eligible, t))]

\* C1 as stated: after ingest no two records of allBooks have the same
\* normalized (lower-cased, trimmed) title, and records whose titles agree
\* after normalization yield exactly one record, the first occurrence among
\* the records that have both a title and a year.
C1_OneRecordPerTitle ==
  Ingested =>
    /\ UniqueTitles(allBooks)
    /\ \A t \in DuplicatedTitles : KeepsFirst(t)

\* C1 as amended: after ingest no two records of allBooks have the same
\* normalized title, and records whose titles agree after normalization
\* yield exactly one record, the first occurrence among the records that
\* have both a title and a year, unless isExcludedTitle excludes the
\* normalized title, in which case they yield no record.
C1_OneRecordPerKeptTitle ==
  Ingested =>
    /\ UniqueTitles(allBooks)
    /\ \A t \in DuplicatedTitles :
         IF isExcludedTitle(t)
           THEN PositionsIn(allBooks, t) = {}
           ELSE KeepsFirst(t)

\* C1 witness: an ingest of a list in which two records with a title and a
\* year differ in spelling only, and one of them was kept
C1_Witness ==
  /\ Ingested
  /\ \E t \in DuplicatedTitles : ~isExcludedTitle(t) /\ PositionsIn(allBooks, t) # {}

\* C2: every record of allBooks has a title, a first publish year that is
\* not null, a title longer than 2 characters and a normalized title that
\* contains none of the excluded phrases; so a record without a title or
\* without a year is not in allBooks.
C2_KeptRecordsValid ==
  Ingested =>
    \A i \in 1..Len(allBooks) :
      /\ Truthy(allBooks[i].title)
      /\ Truthy(allBooks[i].first_publish_year)
      /\ allBooks[i].first_publish_year.kind # "undefined"
      /\ Len(allBooks[i].title.str) > ShortTitleLength
      /\ \A k \in 1..Len(excludedTerms) :
           ~Includes(NormalizedTitle(allBooks[i]), excludedTerms[k])

\* C2 witness: an ingest that dropped a record (no title, no year, a short
\* title or an excluded phrase) and kept another
C2_Witness ==
  /\ Ingested
  /\ allBooks # <<>>
  /\ \E i \in 1..Len(IngestInput) :
       \/ ~hasTitleAndYear(IngestInput[i])
       \/ isExcludedTitle(NormalizedTitle(IngestInput[i]))

\* the order the claim states: year descending, then title ascending
YearGreater(a, b) ==
  /\ ~ToNumber(a.first_publish_year).nan
  /\ ~ToNumber(b.first_publish_year).nan
  /\ ToNumber(a.first_publish_year).val > ToNumber(b.first_publish_year).val

YearSame(a, b) ==
  \/ a.first_publish_year = b.first_publish_year
  \/ /\ ~ToNumber(a.first_publish_year).nan
     /\ ~ToNumber(b.first_publish_year).nan
     /\ ToNumber(a.first_publish_year).val = ToNumber(b.first_publish_year).val

\* C3: after ingest, of any two adjacent records of allBooks the first has
\* a strictly greater year, or both have the same year and the first title
\* is less than or equal to the second; also when a year was taken from a
\* work's first_publish_date.
C3_SortedByYearThenTitle ==
  Ingested =>
    \A i \in 1..(Len(allBooks) - 1) :
      \/ YearGreater(allBooks[i], allBooks[i + 1])
      \/ /\ YearSame(allBooks[i], allBooks[i + 1])
         /\ localeCompare(allBooks[i].title.str, allBooks[i + 1].title.str) <= 0

(***************************************************************************)
(* Properties of the filters.                                              *)
(***************************************************************************)
FiltersEmpty ==
  /\ Trim(currentFilters.search) = <<>>
  /\ currentFilters.language = <<>>
  /\ currentFilters.year = <<>>
  /\ currentFilters.genre = <<>>

\* C4: when the applyFilters callback runs with all four filters empty (the
\* search empty or white space only), filteredBooks equals allBooks: the
\* same records in the same order.
C4_NoFiltersShowAll ==
  (callbackRuns > 0 /\ FiltersEmpty) => filteredBooks = allBooks

\* C4 witness: the callback ran on a loaded catalog with a search of white
\* space only
C4_Witness ==
  /\ callbackRuns > 0
  /\ FiltersEmpty
  /\ currentFilters.search # <<>>
  /\ allBooks # <<>>

\* C5: no handler of the filters changes allBooks; a step that changes
\* allBooks is the displayBooks call of a fetchBooks that was waiting.
C5_OnlyIngestAssignsAllBooks ==
  [][allBooks' # allBooks => (fetching /\ ~fetching' /\ display'.booksContainer)]_vars

\* C5 witness: the filters ran on a loaded catalog and removed a book
C5_Witness ==
  /\ callbackRuns > 0
  /\ allBooks # <<>>
  /\ filteredBooks # allBooks

ContainsIgnoringCase(text, query) ==
  \E i \in 0..(Len(text) - Len(query)) :
    \A k \in 1..Len(query) : ToLowerChar(text[i + k]) = ToLowerChar(query[k])

\* the first position from `from` on where text holds character c, case
\* ignored; 0 when there is none
FirstPosition(text, c, from) ==
  IF \E p \in from..Len(text) : ToLowerChar(text[p]) = ToLowerChar(c)
    THEN Min({p \in from..Len(text) : ToLowerChar(text[p]) = ToLowerChar(c)})
    ELSE 0

\* the number of query characters, from the k-th on, that a greedy scan
\* without backtracking matches in text from position `from` on
RECURSIVE GreedyHits(_, _, _, _)
GreedyHits(query, text, k, from) ==
  IF k > Len(query) \/ FirstPosition(text, query[k], from) = 0
    THEN 0
    ELSE 1 + GreedyHits(query, text, k + 1, FirstPosition(text, query[k], from) + 1)

\* C7: for a non-empty query and text fuzzySearch is true exactly when the
\* text contains the query as a substring, case ignored, or the greedy scan
\* matches at least 70% of the query's characters; so it is true whenever
\* the text contains the query.
C7_FuzzySearchCharacterized ==
  (fuzzyResult # "none" /\ fuzzyQuery # <<>> /\ fuzzyText # <<>>) =>
    /\ (fuzzyResult = "true") <=>
         \/ ContainsIgnoringCase(fuzzyText, fuzzyQuery)
         \/ Tenths * GreedyHits(fuzzyQuery, fuzzyText, 1, 1)
              >= FuzzyThresholdTenths * Len(fuzzyQuery)
    /\ ContainsIgnoringCase(fuzzyText, fuzzyQuery) => fuzzyResult = "true"

\* C7 witness: a query accepted by the scan although the text does not
\* contain it and one of its characters found no match
C7_Witness ==
  /\ fuzzyResult = "true"
  /\ ~ContainsIgnoringCase(fuzzyText, fuzzyQuery)
  /\ GreedyHits(fuzzyQuery, fuzzyText, 1, 1) < Len(fuzzyQuery)

(***************************************************************************)
(* Properties of the merge (enhanceBookData).                              *)
(***************************************************************************)
Merged == stage \in {"merged", "ingestedMerged"}

\* C8: the merge output holds no two records with the same normalized
\* (lower-cased, trimmed) title, and a title recorded from works is not
\* recorded again or replaced by a search hit with that normalized title:
\* the one record with the title of a work carries that work's title.
C8_MergeTitlesUnique ==
  Merged =>
    /\ UniqueTitles(enhancedBooks)
    /\ \A w \in 1..Len(works) :
         Truthy(works[w].title) =>
           \A i \in PositionsIn(enhancedBooks, NormalizedTitle(works[w])) :
             \E v \in 1..Len(works) : enhancedBooks[i].title = works[v].title

(***************************************************************************)
(* Properties of fetchDetailedJKRowlingBooks.                              *)
(***************************************************************************)
\* the call was answered with a 2xx response whose body parsed
CallSucceeded(c) == requests[c].st = "resolved" /\ requests[c].data.httpOk

\* the call rejected or was answered with a response that is not 2xx
CallFailed(c) ==
  \/ requests[c].st = "rejected"
  \/ requests[c].st = "resolved" /\ ~requests[c].data.httpOk

ResolvedWith(hits) ==
  /\ fetchResult.st = "resolved"
  /\ fetchResult.books = hits
  /\ fetchResult.total = Len(hits)

\* the merge threw and the search call succeeded: the search hits are returned
C9_MergeThrowsDegrades ==
  (fetchResult.path = "mergeFallback" /\ CallSucceeded("search")) =>
    ResolvedWith(requests["search"].data.list)

\* the works call failed and the fallback search succeeded: its hits are
\* returned
C9_WorksFailsDegrades ==
  (fetchResult.st # "none" /\ CallFailed("works") /\ CallSucceeded("fallback")) =>
    ResolvedWith(requests["fallback"].data.list)

\* the fallback search failed: the call rejects
C9_FallbackFailureRejects ==
  (fetchResult.path = "fallback" /\ CallFailed("fallback")) =>
    fetchResult.st = "rejected"

\* C9: when the works call fails (rejects or is not 2xx) or the merge
\* throws while the search call succeeds, fetchDetailedJKRowlingBooks
\* resolves with the search hits as books and their count as total; when
\* the fallback search call fails too, it rejects and returns no result.
C9_PartialFailure ==
  /\ C9_MergeThrowsDegrades
  /\ C9_WorksFailsDegrades
  /\ C9_FallbackFailureRejects

\* both cachedFetch calls are made in one step of the caller
C10_BothIssued ==
  (requests["works"].st = "none") <=> (requests["search"].st = "none")

\* the merge runs only when both calls have resolved
C10_JoinedBeforeMerge ==
  fetchPc = "merging" => \A c \in Urls : requests[c].st = "resolved"

\* both calls answered 2xx: the result is the merge output, or the search
\* hits if the merge threw, and never comes from the fallback path
C10_MergeOutputReturned ==
  (fetchResult.st # "none" /\ CallSucceeded("works") /\ CallSucceeded("search")) =>
    /\ fetchResult.st = "resolved"
    /\ fetchResult.path \in {"merge", "mergeFallback"}
    /\ fetchResult.path = "merge" =>
         /\ fetchResult.books = enhancedBooks
         /\ \E d \in DetailChoices(works) :
              enhancedBooks = enhanceBookData(requests["works"].data.list,
                                              requests["search"].data.list, d)

\* C10: when the works call and the search call both complete with a 2xx
\* response, both requests are issued before either is awaited, the merge
\* starts only after both responses have arrived, and the books returned
\* are the merge output, not the raw search hits of the fallback path.
C10_ConcurrentJoinMerge ==
  /\ C10_BothIssued
  /\ C10_JoinedBeforeMerge
  /\ C10_MergeOutputReturned

\* with a fetch whose Response keeps ok as an own property the merge output
\* is returned
C10_MergeOutputWhenOkIsOwn == responseOwnsOk => C10_MergeOutputReturned

(***************************************************************************)
(* Properties of generateBookDescription.                                  *)
(***************************************************************************)
TemplateSentences == {fallbackSentences[k] : k \in DOMAIN fallbackSentences}

\* the dataset request failed: no answer, an answer that is not ok, a body
\* that does not parse, or rows of which the first has no row.row
DatasetFailed ==
  \/ ~descOutcome.answered
  \/ ~descOutcome.ok
  \/ ~descOutcome.parsable
  \/ descOutcome.rows # <<>> /\ ~descOutcome.rows[1].wellFormed

\* C11: for a book with a title generateBookDescription never rejects:
\* whatever the dataset request does (a match, no match, malformed rows, a
\* response that is not 2xx, a network error) it resolves with a non-empty
\* string, and when the request failed with a sentence of the templates.
C11_DescriptionNeverRejects ==
  (descPc = "done" /\ Truthy(descBook.title)) =>
    /\ descResult.st = "resolved"
    /\ descResult.text # <<>>
    /\ DatasetFailed =>
         descResult.path = "fallback" /\ descResult.text \in TemplateSentences

\* C11 witness: the call settled for a book with a title although the rows
\* of the dataset were malformed
C11_Witness ==
  /\ descPc = "done"
  /\ Truthy(descBook.title)
  /\ descOutcome.rows # <<>>
  /\ ~descOutcome.rows[1].wellFormed
  /\ descResult.st = "resolved"

\* C12: for a book that has a description generateBookDescription resolves
\* with that description unchanged and sends no dataset request.
C12_ExistingDescriptionReturned ==
  Truthy(descBook.description) =>
    /\ descPc # "awaitDataset"
    /\ descPc = "done" =>
         /\ descResult.st = "resolved"
         /\ descResult.text = descBook.description.str

(***************************************************************************)
(* Properties of cachedFetch.                                              *)
(***************************************************************************)
FiveMinutes == 5 * 60 * 1000

\* cachedFetch is called for c in this step
CalledNow(c) ==
  IF c = "fallback"
    THEN fetchPc # "fallback" /\ fetchPc' = "fallback"
    ELSE invocations' # invocations

\* the cache holds an entry for the url that is younger than five minutes
FreshEntry(u) ==
  apiCache[u].present /\ clock - apiCache[u].timestamp < FiveMinutes

\* the call returned the stored response and sent no request
ServedFromCache(c) ==
  /\ requests'[c].st = "resolved"
  /\ requests'[c].data = apiCache[Url(c)].data
  /\ apiCache' = apiCache

\* the response of the request of c is stored in this step
StoredNow(c) ==
  requests[c].st = "parsing" /\ requests'[c].st = "resolved"

\* C13: a call of cachedFetch at time t returns the stored response, without
\* a request, exactly when the cache holds an entry for the url with
\* t - timestamp < 5 minutes; otherwise (no entry, or one aged 5 minutes or
\* more) a request is sent, and when its response arrives the entry is
\* replaced by that response and the time of its arrival.
C13_CacheFreshness ==
  [][\A c \in Calls :
       /\ CalledNow(c) =>
            /\ ServedFromCache(c) <=> FreshEntry(Url(c))
            /\ ~FreshEntry(Url(c)) => requests'[c].st = "fetching"
       /\ StoredNow(c) =>
            apiCache'[Url(c)] = [present |-> TRUE, data |-> requests'[c].data,
                                 timestamp |-> clock]]_vars

\* C13 witness: of the two requests of a second call of
\* fetchDetailedJKRowlingBooks one was served by an entry younger than five
\* minutes, the other was sent because its entry was five minutes old
C13_Witness ==
  /\ invocations = 2
  /\ requests["works"].st = "resolved"
  /\ ~requests["works"].response.parsable
  /\ clock - apiCache["works"].timestamp < FiveMinutes
  /\ requests["search"].st = "fetching"
  /\ apiCache["search"].present
  /\ clock - apiCache["search"].timestamp = FiveMinutes

(***************************************************************************)
(* The end-to-end example.                                                 *)
(***************************************************************************)
ExampleInput == works = <<workCasual>> /\ searchBooks = <<hitCasual>>

\* the texts of the options of the language dropdown
LanguageTexts == {getLanguageName(code) : code \in dropdowns.language}

\* C14: for the works [{title "Casual Vacancy", first_publish_date "2012"}]
\* and the search hits [{title "Casual Vacancy", first_publish_year 2012,
\* language ["eng"], subject ["Fiction"]}] the merge yields exactly one
\* record, with language ["eng"] and first publish year 2012; after the
\* ingest the language options read ["English"], the genre options are
\* ["Fiction"], and the genre filter "Fiction" returns that one record.
C14_EndToEndExample ==
  ExampleInput =>
    /\ stage \in {"merged", "ingestedMerged"} =>
         /\ Len(enhancedBooks) = 1
         /\ enhancedBooks[1].title = Str(<<"C", "a", "s", "u", "a", "l", " ", "V", "a", "c", "a", "n", "c", "y">>)
         /\ enhancedBooks[1].language = Arr(<<<<"e", "n", "g">>>>)
         /\ enhancedBooks[1].first_publish_year = Num(2012)
    /\ stage = "ingestedMerged" =>
         /\ allBooks = enhancedBooks
         /\ LanguageTexts = {<<"E", "n", "g", "l", "i", "s", "h">>}
         /\ dropdowns.genre = {<<"F", "i", "c", "t", "i", "o", "n">>}
         /\ applyFiltersResult(allBooks, [NoFilters EXCEPT !.genre = <<"F", "i", "c", "t", "i", "o", "n">>])
              = enhancedBooks

\* C14 witness: the example was merged and ingested
C14_Witness ==
  /\ ExampleInput
  /\ stage = "ingestedMerged"
  /\ Len(allBooks) = 1

(***************************************************************************)
(* Properties of fetchBooks.                                               *)
(***************************************************************************)
\* fetchBooks has run and settled
FetchBooksSettled == invocations > 0 /\ ~fetching

\* the works call and every search call that was made failed
BothUpstreamFailed ==
  /\ CallFailed("works")
  /\ CallFailed("search")
  /\ requests["fallback"].st # "none" => CallFailed("fallback")

\* C15: whenever the works call and the search call both failed, by a
\* network error or by a response that is not 2xx, fetchBooks ends in the
\* error state: the error element, with the retry button that runs
\* fetchBooks again, is shown and the book container is hidden.
C15_BothFailShowError ==
  (FetchBooksSettled /\ BothUpstreamFailed) =>
    /\ display.error
    /\ ~display.booksContainer
    /\ ~display.loading

(***************************************************************************)
(* Properties of the merge.                                                *)
(***************************************************************************)
\* the works that yield a record: the first of each lower-cased title
RecordedWorks ==
  {i \in 1..Len(works) :
     /\ Truthy(works[i].title)
     /\ \A j \in 1..(i - 1) :
          Truthy(works[j].title) => ProcessedKey(works[j]) # ProcessedKey(works[i])}

\* the position in the output of the record of work i
RecordOf(i) == Cardinality({j \in RecordedWorks : j <= i})

\* the fields of a record that carry data; title, key and covers identify
\* the work
DataFields == DOMAIN BlankRecord \ {"title", "key", "covers"}

\* C16: for every work with a matching search hit and a fetched detail each
\* field of the enhanced record follows the precedence search hit, then
\* detail, then bare work: a field the search hit has a value for holds
\* that value, never the value of the detail or of the bare work.
C16_HitValuePreferred ==
  Merged =>
    \A i \in RecordedWorks :
      (searchMatchIndex(works[i], searchBooks) # {} /\ details[i] # BlankRecord) =>
        \A f \in DataFields :
          Truthy(searchMatch(works[i], searchBooks)[f]) =>
            enhancedBooks[RecordOf(i)][f] = searchMatch(works[i], searchBooks)[f]

\* the works of distinct normalized titles, each at its first occurrence
DistinctWorks ==
  {i \in 1..Len(works) :
     /\ Truthy(works[i].title)
     /\ \A j \in 1..(i - 1) :
          Truthy(works[j].title) =>
            NormalizedTitle(works[j]) # NormalizedTitle(works[i])}

\* the search hits whose normalized title is the title of no work and of no
\* earlier search hit
LeftoverHits ==
  {i \in 1..Len(searchBooks) :
     /\ Truthy(searchBooks[i].title)
     /\ \A w \in 1..Len(works) :
          Truthy(works[w].title) =>
            NormalizedTitle(works[w]) # NormalizedTitle(searchBooks[i])
     /\ \A j \in 1..(i - 1) :
          Truthy(searchBooks[j].title) =>
            NormalizedTitle(searchBooks[j]) # NormalizedTitle(searchBooks[i])}

\* the k-th smallest element of a set of indices
Nth(S, k) == CHOOSE i \in S : Cardinality({j \in S : j <= i}) = k

\* C17: the merge output is, in order, one record per distinct work title
\* in the order of works, then the search hits whose normalized title
\* matched no work (and was not seen before) in the order of searchHits:
\* every such hit appears, nothing else does, and nothing is sorted.
C17_WorksThenLeftoverHits ==
  Merged =>
    /\ Len(enhancedBooks) = Cardinality(DistinctWorks) + Cardinality(LeftoverHits)
    /\ \A k \in 1..Cardinality(DistinctWorks) :
         enhancedBooks[k].title = works[Nth(DistinctWorks, k)].title
    /\ \A k \in 1..Cardinality(LeftoverHits) :
         enhancedBooks[Cardinality(DistinctWorks) + k].title
           = searchBooks[Nth(LeftoverHits, k)].title

\* the merge output when every detail request succeeds
AllDetailsMerge ==
  enhanceBookData(works, searchBooks,
                  [i \in 1..Len(works) |->
                     IF Truthy(works[i].key) THEN detailOf(works[i]) ELSE BlankRecord])

\* the fields of a record that are taken from the detail of its work
DetailFields ==
  {"subject", "description", "subtitle", "dewey_decimal_class", "lc_classifications"}

\* the detail request of work i failed
DetailFailed(i) == Truthy(works[i].key) /\ details[i] = BlankRecord

\* C18: whatever the outcomes of the detail requests (success, a response
\* that is not 2xx, a network error, the abort after 5 seconds) the merge
\* completes with the titles, in the order, of the merge in which every
\* detail request succeeds; a record differs from that merge only if the
\* detail request of its own work failed, and then only in the fields
\* taken from the detail.
C18_DetailFailuresIsolated ==
  Merged =>
    /\ Len(enhancedBooks) = Len(AllDetailsMerge)
    /\ \A k \in 1..Len(enhancedBooks) :
         /\ enhancedBooks[k].title = AllDetailsMerge[k].title
         /\ \A f \in DOMAIN BlankRecord \ DetailFields :
              enhancedBooks[k][f] = AllDetailsMerge[k][f]
         /\ enhancedBooks[k] # AllDetailsMerge[k] =>
              \E i \in RecordedWorks : RecordOf(i) = k /\ DetailFailed(i)

\* C18 witness: of two works with a detail request the first request failed
\* and the second succeeded, and the merge completed with both records, the
\* first of them without the description of the detail
C18_Witness ==
  /\ Merged
  /\ works = <<workInk, workAnt>>
  /\ DetailFailed(1)
  /\ ~DetailFailed(2)
  /\ Len(enhancedBooks) >= 2
  /\ enhancedBooks[1] # AllDetailsMerge[1]
  /\ enhancedBooks[2] = AllDetailsMerge[2]

(***************************************************************************)
(* Properties of getFallbackDescription.                                   *)
(***************************************************************************)
\* generateBookDescription returned what getFallbackDescription returned
FellBack == descPc = "done" /\ descResult.st = "resolved" /\ descResult.path = "fallback"

TitleHas(word) == Includes(ToLowerCase(descBook.title.str), word)

SubjectsHave(word) ==
  /\ Truthy(descBook.subject)
  /\ Includes(ToLowerCase(Join(descBook.subject.items, <<" ">>)), word)

SeriesTitle == TitleHas(<<"h", "a", "r", "r", "y", " ", "p", "o", "t", "t", "e", "r">>)

DetectiveTitle ==
  \E word \in {<<"s", "t", "r", "i", "k", "e">>, <<"c", "u", "c", "k", "o", "o">>, <<"s", "i", "l", "k", "w", "o", "r", "m">>, <<"e", "v", "i", "l">>, <<"w", "h", "i", "t", "e">>, <<"b", "l", "o", "o", "d">>,
                <<"h", "e", "a", "r", "t">>, <<"g", "r", "a", "v", "e">>} : TitleHas(word)

TitleRuleMatched ==
  SeriesTitle \/ DetectiveTitle \/ TitleHas(<<"c", "a", "s", "u", "a", "l", " ", "v", "a", "c", "a", "n", "c", "y">>)
    \/ TitleHas(<<"f", "a", "n", "t", "a", "s", "t", "i", "c", " ", "b", "e", "a", "s", "t", "s">>)

SubjectRuleMatched ==
  \E word \in {<<"f", "a", "n", "t", "a", "s", "y">>, <<"m", "a", "g", "i", "c">>, <<"m", "y", "s", "t", "e", "r", "y">>, <<"c", "r", "i", "m", "e">>, <<"y", "o", "u", "n", "g", " ", "a", "d", "u", "l", "t">>,
                <<"c", "h", "i", "l", "d", "r", "e", "n">>} : SubjectsHave(word)

SeriesSentences ==
  {fallbackSentences[k] : k \in {"philosopher", "chamber", "prisoner", "goblet",
                                  "phoenix", "prince", "hallows", "potter"}}

TitleSentences ==
  SeriesSentences
    \cup {fallbackSentences[k] : k \in {"strike", "vacancy", "beasts"}}

SubjectSentences == {fallbackSentences[k] : k \in {"fantasy", "mystery", "young"}}

\* C19: getFallbackDescription is a function of the title and the subjects
\* only, evaluated as an ordered cascade: a title with the series token
\* yields a sentence of the series whatever other keywords and subjects the
\* book has; a title rule wins over every subject rule; a subject sentence
\* is returned only when no title rule matched; and the generic sentence is
\* returned exactly when no rule matched.
C19_FallbackCascade ==
  FellBack =>
    /\ descResult.text =
         getFallbackDescription([BlankRecord EXCEPT !.title = descBook.title,
                                                    !.subject = descBook.subject])
    /\ SeriesTitle => descResult.text \in SeriesSentences
    /\ (~SeriesTitle /\ DetectiveTitle) => descResult.text = fallbackSentences.strike
    /\ TitleRuleMatched => descResult.text \in TitleSentences
    /\ descResult.text \in SubjectSentences =>
         ~TitleRuleMatched /\ SubjectRuleMatched
    /\ (~TitleRuleMatched /\ (SubjectsHave(<<"f", "a", "n", "t", "a", "s", "y">>) \/ SubjectsHave(<<"m", "a", "g", "i", "c">>))) =>
         descResult.text = fallbackSentences.fantasy
    /\ descResult.text = fallbackSentences.generic
         <=> (~TitleRuleMatched /\ ~SubjectRuleMatched)

\* C19 witness: the fallback described a book of the series whose title
\* holds a keyword of the detective series and whose subjects name a genre
C19_Witness ==
  /\ FellBack
  /\ SeriesTitle
  /\ DetectiveTitle
  /\ SubjectRuleMatched
  /\ descResult.text = fallbackSentences.prince

(***************************************************************************)
(* Properties of categorizeGenre.                                          *)
(***************************************************************************)
Categorized == genreResult.st = "returned"

\* the subject as categorizeGenre compares it
LowerSubject == Trim(ToLowerCase(genreSubject))

ExclusionKeywords ==
  {<<"j", "u", "v", "e", "n", "i", "l", "e">>, <<"a", "c", "c", "e", "s", "s", "i", "b", "l", "e", " ", "b", "o", "o", "k">>, <<"l", "a", "r", "g", "e", " ", "t", "y", "p", "e", " ", "b", "o", "o", "k", "s">>, <<"r", "e", "a", "d", "e", "r", "s">>, <<"g", "r", "a", "d", "e">>,
   <<"b", "i", "b", "l", "i", "o", "g", "r", "a", "p", "h", "y">>, <<"i", "n", "d", "e", "x", "e", "s">>}

StartsWithDigit(s) == s # <<>> /\ s[1] \in RangeOf(DecimalDigits)

\* the subjects categorizeGenre rejects: measured and searched after
\* lower-casing and trimming, with the opening parenthesis only
RejectedSubject ==
  \/ Len(LowerSubject) > 60
  \/ Includes(LowerSubject, <<"-", "-">>)
  \/ Includes(LowerSubject, <<"(">>)
  \/ \E word \in ExclusionKeywords : Includes(LowerSubject, word)
  \/ StartsWithDigit(LowerSubject)

\* the subjects the statement rejects as it is worded: over 60 characters
\* as given, and with either parenthesis
RejectedAsWorded ==
  \/ Len(genreSubject) > 60
  \/ Includes(genreSubject, <<"-", "-">>)
  \/ Includes(genreSubject, <<"(">>)
  \/ Includes(genreSubject, <<")">>)
  \/ \E word \in ExclusionKeywords : Includes(ToLowerCase(genreSubject), word)
  \/ StartsWithDigit(genreSubject)

ExactKeys == {i \in 1..Len(genreMapping) : genreMapping[i][1] = LowerSubject}

SubstringKeys ==
  {i \in 1..Len(genreMapping) : Includes(LowerSubject, genreMapping[i][1])}

\* a subject that is not rejected gets the category of the exactly matching
\* key, otherwise that of the first key of the table it includes
TableRule ==
  /\ ExactKeys # {} => \E i \in ExactKeys : genreResult.value = genreMapping[i][2]
  /\ (ExactKeys = {} /\ SubstringKeys # {}) =>
       genreResult.value = genreMapping[Min(SubstringKeys)][2]

GenreExamples ==
  /\ genreSubject = <<"F", "a", "n", "t", "a", "s", "y", " ", "f", "i", "c", "t", "i", "o", "n">> => genreResult.value = <<"F", "a", "n", "t", "a", "s", "y">>
  /\ genreSubject = <<"J", "u", "v", "e", "n", "i", "l", "e", " ", "f", "i", "c", "t", "i", "o", "n", ",", " ", "g", "r", "a", "d", "e", " ", "3">> => genreResult.value = <<>>

\* C20 as stated: categorizeGenre returns null for every subject that is
\* over 60 characters, contains a hyphen-pair, a parenthesis or an exclusion
\* keyword or starts with a digit; for every other subject it returns the
\* category of the exactly matching key, otherwise that of the first table
\* key that is a substring of the subject.
C20_GenreRuleAsWorded ==
  Categorized =>
    /\ RejectedAsWorded => genreResult.value = <<>>
    /\ (~RejectedAsWorded /\ genreSubject # <<>>) => TableRule
    /\ GenreExamples

\* C20, amended: categorizeGenre returns null for every subject that, lower-
\* cased and trimmed, is over 60 characters, contains a hyphen-pair, an
\* opening parenthesis or an exclusion keyword or starts with a digit; for
\* every other subject it returns the category of the table key that equals
\* the lower-cased, trimmed subject, otherwise that of the first table key,
\* in table order, that is a substring of it.
C20_GenreRule ==
  Categorized =>
    /\ RejectedSubject => genreResult.value = <<>>
    /\ (~RejectedSubject /\ genreSubject # <<>>) => TableRule
    /\ GenreExamples

\* C20 witness: a subject with two keys of the table, of which neither is
\* the whole subject, got the category of the first
C20_Witness ==
  /\ Categorized
  /\ genreSubject = <<"F", "a", "n", "t", "a", "s", "y", " ", "f", "i", "c", "t", "i", "o", "n">>
  /\ ~RejectedSubject
  /\ ExactKeys = {}
  /\ Cardinality({genreMapping[i][2] : i \in SubstringKeys}) > 1
  /\ genreResult.value = <<"F", "a", "n", "t", "a", "s", "y">>

(***************************************************************************)
(* Properties of applyFilters and of the timers.                           *)
(***************************************************************************)
SearchActive == Trim(currentFilters.search) # <<>>

\* the search criterion: the query fuzzy-matches the title, holds the year
\* of the book, or fuzzy-matches a subject or the subtitle
MeetsSearch(book) ==
  \/ fuzzySearch(currentFilters.search, book.title.str)
  \/ /\ Truthy(book.first_publish_year)
     /\ Includes(currentFilters.search, ValueToString(book.first_publish_year))
  \/ \E subject \in ItemsOf(book.subject) : fuzzySearch(currentFilters.search, subject)
  \/ Truthy(book.subtitle) /\ fuzzySearch(currentFilters.search, book.subtitle.str)

\* the book satisfies every criterion that is active
MeetsFilters(book) ==
  /\ SearchActive => MeetsSearch(book)
  /\ currentFilters.language # <<>> =>
       currentFilters.language \in ItemsOf(book.language)
  /\ currentFilters.year # <<>> =>
       /\ Truthy(book.first_publish_year)
       /\ ValueToString(book.first_publish_year) = currentFilters.year
  /\ currentFilters.genre # <<>> =>
       \E subject \in ItemsOf(book.subject) :
         categorizeGenre(subject) = currentFilters.genre

KeptPositions == {i \in 1..Len(allBooks) : MeetsFilters(allBooks[i])}

\* C21: the result of applyFilters is the subsequence of allBooks, in the
\* order of allBooks, of exactly the books that satisfy every active
\* criterion: the search (fuzzy match on the title, the year string held by
\* the query, fuzzy match on a subject or on the subtitle), the selected
\* language among the languages of the book, the year as a string equal to
\* the selected year, a subject that categorizes to the selected genre.
C21_FilteredSubsequence ==
  callbackRuns > 0 =>
    /\ Len(filteredBooks) = Cardinality(KeptPositions)
    /\ \A k \in 1..Len(filteredBooks) :
         filteredBooks[k] = allBooks[Nth(KeptPositions, k)]

\* C21 witness: a search that matches one book of two, by its subtitle and
\* not by its title, left that book
C21_Witness ==
  /\ callbackRuns > 0
  /\ allBooks = <<hitAnt, hitInkDated>>
  /\ currentFilters.search = <<"s", "t", "o">>
  /\ ~fuzzySearch(currentFilters.search, hitInkDated.title.str)
  /\ fuzzySearch(currentFilters.search, hitInkDated.subtitle.str)
  /\ filteredBooks = <<hitInkDated>>

\* the calls that end a burst: the last call, and every call that the next
\* one follows by wait or more
BurstEnds ==
  {i \in 1..Len(calls) :
     i = Len(calls) \/ calls[i + 1].time - calls[i].time >= WaitTicks}

\* what func receives for the burst that call i ends
InvocationFor(i) == [time |-> calls[i].time + WaitTicks, args |-> calls[i].args]

\* C22: for a function wrapped by debounce(func, wait), every burst of
\* calls, each less than wait after the one before, invokes func exactly
\* once: wait after the last call of the burst and with the arguments of
\* that call.
C22_OncePerBurst ==
  /\ Len(funcCalls) <= Cardinality(BurstEnds)
  /\ \A k \in 1..Len(funcCalls) : funcCalls[k] = InvocationFor(Nth(BurstEnds, k))
  /\ \A k \in 1..Cardinality(BurstEnds) :
       calls[Nth(BurstEnds, k)].time + WaitTicks < elapsed => k <= Len(funcCalls)

\* C22 witness: a burst of three calls, each one tick after the one before,
\* whose first and last arguments differ, invoked func once
C22_Witness ==
  /\ Len(calls) = 3
  /\ calls[2].time - calls[1].time < WaitTicks
  /\ calls[3].time - calls[2].time < WaitTicks
  /\ calls[1].args # calls[3].args
  /\ funcCalls = <<InvocationFor(3)>>

\* the two cachedFetch calls of the search url
SearchCalls == {c \in Calls : Url(c) = "search"}

\* call c sent its own request and returned the object made from its answer
OwnAnswer(c) ==
  /\ requests[c].st = "resolved"
  /\ requests[c].response.parsable
  /\ requests[c].data = Wrapped(requests[c].response)

\* C23: two overlapping cachedFetch calls of one key without a fresh entry
\* are not coalesced: the later call sends a request of its own, each call
\* resolves with the object made from its own response, and each completion
\* overwrites the one cache entry of the key, so the entry is the one of the
\* request that completed last.
C23_DuplicatesTolerated ==
  [][/\ (/\ requests["fallback"].st = "none"
         /\ requests'["fallback"].st # "none"
         /\ InFlight("search")
         /\ ~FreshEntry("search"))
        => requests'["fallback"].st = "fetching"
     /\ \A c \in SearchCalls :
          (requests[c].st = "parsing" /\ requests'[c].st = "resolved")
            => /\ requests'[c].data = Wrapped(requests[c].response)
               /\ apiCache'["search"] =
                    [present |-> TRUE, data |-> requests'[c].data,
                     timestamp |-> clock]]_vars

\* C23 witness: the search call and the fallback call both sent a request
\* and resolved with different answers, and the cache holds the answer of the
\* search call, which was sent first and completed last
C23_Witness ==
  /\ OwnAnswer("search")
  /\ OwnAnswer("fallback")
  /\ requests["search"].data # requests["fallback"].data
  /\ apiCache["search"].data = requests["search"].data
  /\ apiCache["search"].timestamp = clock

\* no timer of debouncedFilter and no timer of applyFilters is pending
NoTimerPending == ~debounceTimer /\ filterTimers = 0

\* C24: whatever the interleaving of search input, dropdown changes,
\* clear-search, clearAllFilters and ingest, once no debounce timer and no
\* applyFilters timer is pending, filteredBooks is the filter of the current
\* allBooks by the current currentFilters.
C24_QuiescentViewCurrent ==
  NoTimerPending => filteredBooks = applyFiltersResult(allBooks, currentFilters)

\* C24 witness: two recomputations that were pending together ran one after
\* the other, under a search text that keeps some books and drops others, and
\* no timer is left
C24_Witness ==
  /\ NoTimerPending
  /\ callbackRuns >= 2
  /\ Trim(currentFilters.search) # <<>>
  /\ filteredBooks # <<>>
  /\ Len(filteredBooks) < Len(allBooks)

\* an option of the language or of the genre dropdown is the only filter set
OnlyOfferedOption ==
  \/ \E value \in dropdowns.language :
       currentFilters = [NoFilters EXCEPT !.language = value]
  \/ \E value \in dropdowns.genre :
       currentFilters = [NoFilters EXCEPT !.genre = value]

\* C25: an option that the language or the genre dropdown offers for the
\* current allBooks, selected as the only filter, leaves filteredBooks
\* non-empty once the recomputation has run, also when a language or subject
\* string carries blanks at its ends.
C25_OfferedOptionsMatch ==
  (NoTimerPending /\ callbackRuns > 0 /\ OnlyOfferedOption) => filteredBooks # <<>>

\* C26: the description that the modal shows belongs to the book passed to
\* showWithBook last: a request made for an earlier book that completes late
\* does not replace it.
C26_DescriptionOfShownBook ==
  modalDescription \in {EmptyElement, Spinner, DescriptionFor(modalBook)}

\* C27: in the carousel at most one auto-scroll interval timer is active at
\* any time, whatever the interleaving of mouseenter, mouseleave,
\* manualScroll with its resume timeout and the retry of loadBooks.
C27_SingleInterval == Cardinality(intervals) <= 1

\* the requests a step of preGenerateDescriptions sends
SentByStep == pregenSent' \ pregenSent

\* C28: preGenerateDescriptions is mutually exclusive and bounded: a call
\* made during a run returns without sending a request, at most 3 of its
\* requests are in flight, a book whose key descriptionCache holds is not
\* requested, and isPreGeneratingDescriptions is false again when the run
\* has ended, whether or not a request failed.
C28_PregenExclusiveBounded ==
  [][/\ (isPreGeneratingDescriptions /\ pregenCalls' = pregenCalls + 1)
        => UNCHANGED <<isPreGeneratingDescriptions, pregenBooks, pregenIndex,
                       pregenPc, pregenRequests, pregenRuns, pregenSent>>
     /\ Cardinality(pregenRequests') <= 3
     /\ \A s \in SentByStep :
          getBookCacheKey(pregenBooks'[s.position]) \notin DOMAIN descriptionCache
     /\ isPreGeneratingDescriptions' <=> pregenPc' # "idle"]_vars

\* C28 witness: a first run sent the requests of its four books, three of
\* them in one batch, and a call made during it returned at once; a request
\* failed and left the fallback description; the second run, for a book that
\* is cached, sent nothing and has ended with the flag reset
C28_Witness ==
  /\ pregenRuns = 2
  /\ pregenCalls = 3
  /\ pregenPc = "idle"
  /\ ~isPreGeneratingDescriptions
  /\ pregenBooks = <<hitAnt>>
  /\ pregenSent = {[run |-> 1, position |-> j] : j \in 1..4}
  /\ \E k \in DOMAIN descriptionCache : descriptionCache[k].kind = "fallback"

\* the detail requests that have not settled
DetailsInFlight == detailRequests \cup detailBodies

\* the output of the loop for the works before position i, with the details d
RecordsBefore(i, d) ==
  enhanceWorks(SubSeq(works, 1, i - 1), searchBooks, d, 1, {}).books

\* C29: during the merge the detail requests are strictly sequential: at
\* most one is in flight, the request of a work is sent only when the
\* requests of the works before it have succeeded, failed or been aborted,
\* and the records are appended in works order however the requests settle.
C29_DetailFetchesSequential ==
  [][/\ Cardinality(DetailsInFlight') <= 1
     /\ \A j \in detailRequests' \ detailRequests :
          /\ DetailsInFlight' = {j}
          /\ \A k \in 1..Len(loopIssued) : loopIssued[k] < j
     /\ enhancedBooks' =
          IF loopPc' = "done"
            THEN enhanceBookData(works, searchBooks, details')
            ELSE RecordsBefore(loopIndex', details')]_vars

\* C29 witness: of three works the first and the third have a key; the
\* request of the first was rejected, leaving its abort timer set, the
\* request of the third was sent after it and brought the detail, and the
\* loop has ended with the three records
C29_Witness ==
  /\ loopPc = "done"
  /\ works = <<workAnt, workOwl, workInk>>
  /\ loopIssued = <<1, 3>>
  /\ details[1] = BlankRecord
  /\ details[3] = detailOf(workInk)
  /\ abortTimers = {1}
  /\ Len(enhancedBooks) >= 3

\* the cache holds a fresh entry of the url that was made from a response
\* whose status is not 2xx
FreshFailedEntry(u) == FreshEntry(u) /\ ~apiCache[u].data.httpOk

\* the request of c fails in this step: the fetch or the parsing of the body
\* rejects
FailsNow(c) == InFlight(c) /\ requests'[c].st = "rejected"

\* call c was answered by the cache with an entry made from a failed response
AnsweredByFailedEntry(c) ==
  /\ requests[c].st = "resolved"
  /\ requests[c].response = NoResponse
  /\ requests[c].data = apiCache[Url(c)].data
  /\ ~requests[c].data.httpOk

\* C30: cachedFetch stores a response whose body parses whatever its status;
\* while the entry of a failed response is younger than five minutes, every
\* call for its key, the fallback call and the calls of a retried fetchBooks
\* included, returns it and sends no request; a rejected fetch or a body
\* that does not parse leaves the cache as it is.
C30_FailedResponseCached ==
  [][\A c \in Calls :
       /\ StoredNow(c) =>
            /\ apiCache'[Url(c)].present
            /\ apiCache'[Url(c)].data.httpOk = requests[c].response.ok
            /\ apiCache'[Url(c)].timestamp = clock
       /\ (CalledNow(c) /\ FreshFailedEntry(Url(c))) =>
            /\ requests'[c].st = "resolved"
            /\ requests'[c].data = apiCache[Url(c)].data
            /\ ~requests'[c].data.httpOk
       /\ FailsNow(c) => apiCache' = apiCache]_vars

\* C30 witness: after the error state the user retried fetchBooks; the works
\* call of the retry and its fallback search call were both answered by the
\* entries of failed responses, without a request
C30_Witness ==
  /\ invocations = 2
  /\ AnsweredByFailedEntry("works")
  /\ AnsweredByFailedEntry("fallback")
====
